---- MODULE Spec2Model ----
(***************************************************************************)
(* A model of storage_doctor's core: the bounded agent loop                *)
(* (internal/agent/agent.go), the rate limiter (internal/llm/rate_limit.go)*)
(* and the two streaming decoders (internal/llm/anthropic.go, openai.go).  *)
(*                                                                         *)
(* Text is a sequence of tokens (strings); the empty text is << >>.        *)
(* A message is [role, content] with content a text.                       *)
(***************************************************************************)
EXTENDS Integers, Sequences, FiniteSets, TLC

VARIABLES
    \* ---- agent loop (Agent.StreamTask / Agent.ExecuteTask) ----
    variant,        \* "none" | "stream" | "execute": which entry point runs
    pc,             \* "idle" | "loop" | "dispatch" | "done"
    messages,       \* chat.Manager.messages
    iterations,     \* local `iterations`
    providerCalls,  \* number of llmProvider.StreamChatWithTools calls made
    toolCalls,      \* local `toolCalls` of the current round
    toolResults,    \* local `toolResults` of the current round
    finalResponse,  \* local `finalResponse` (ExecuteTask only)
    execLog,        \* history: the onToolCall invocations, [call, outcome], in order
    out,            \* the chunks passed to the caller's onChunk (StreamTask)
    result,         \* "none" | "ok" | "err_llm" | "err_empty"
    roundStart,     \* history: messages as passed to the current round's call
    roundReply,     \* history: the reply of the current round
    roundExecStart, \* history: Len(execLog) when the current round began
    nMulti,         \* environment: rounds so far whose reply had two tool calls
    nExecErr,       \* environment: executor callbacks so far that failed
    \* ---- rate limiter (llm.RateLimiter) ----
    now,            \* time.Now(), in ticks; 0 is the zero time.Time
    window,         \* RateLimiter.window
    maxTokens,      \* RateLimiter.maxTokens
    maxRequests,    \* RateLimiter.maxRequests
    windowStart,    \* RateLimiter.windowStart (0: IsZero)
    usedTokens,     \* RateLimiter.usedTokens
    usedRequests,   \* RateLimiter.usedRequests
    callers,        \* per goroutine: its position in Wait and Wait's locals
    admitted,       \* history: tokens of the reservations committed since the
                    \* last window reset, in order
    limitsFixed,    \* history: no limit was changed since the last window reset
    admitLog,       \* history (kept under SpecLimiterLogged only): every
                    \* committed reservation, [t, tokens], in order of commit
    nWaitCalls,     \* environment: Wait calls made so far
    observer,       \* per goroutine: its context carries a RateLimitReporter
    reports,        \* per goroutine: the reporter's invocations during its
                    \* current Wait call, [wait, waiting], in order
    \* ---- one streaming call (StreamChatWithTools of either provider) ----
    scenario,       \* environment: the provider, whether onToolCall is set, and
                    \* the records the server may send in this call
    stream,         \* the lines of the response body read so far
    status,         \* "scanning" | "ok" (returned nil) | "error" (returned err)
    chunks,         \* the arguments of the onChunk invocations, in order
    emitted,        \* the arguments of the onToolCall invocations, in order
    currentTool,    \* anthropic.go: `currentTool`
    currentToolCalls, \* openai.go: `currentToolCalls`, index -> buffer
    \* ---- one provider (AnthropicProvider / OpenAIProvider) and its calls ----
    pvendor,        \* "none" | "anthropic" | "openai": the provider's type
    apiKeySet,      \* p.apiKey # ""
    ppc,            \* position of the running StreamChatWithTools call:
                    \* "idle" | "wait" | "request" | "stream" | "returned"
    pret,           \* what the call returned: "none" | "ok" | "err_key" |
                    \* "err_wait" | "err_nomsg" | "err_http" | "err_status" |
                    \* "err_stream"
    httpRequests,   \* number of p.client.Do calls made (all calls)
    callbacks,      \* onChunk / onToolCall may have been invoked by this call
    granted,        \* history: this call's Wait returned nil after it had
                    \* committed a reservation
    headers,        \* history: the two quota header values of the response
                    \* received in the last step (<<>>: none received)
    nProviderCalls, \* environment: StreamChatWithTools calls made so far
    \* ---- Provider.Chat over one streaming call ----
    chatRet,        \* what Chat returned: [done, text, err]
    \* ---- the request and response of one provider call ----
    pmessages,      \* the `messages` argument of the running call
    requestBody,    \* history: the body of the request handed to client.Do
    presponse,      \* history: the status code and body of the response
    perror,         \* the text of the error the call returned before it read
                    \* the response stream (<<>>: none)
    \* ---- chat.Manager's operations (on `messages`) ----
    lastOp,         \* history: the last operation, its arguments and effects
    summarized,     \* history: summarizeContext has replaced the old messages
                    \* since the last Clear
    nManagerOps,    \* environment: operations made so far
    \* ---- EstimateTokens ----
    estArgs,        \* the message lists of two calls, "a" and "b"
    estValues,      \* what the two calls returned
    estDone,        \* the calls that have returned
    \* ---- the TUI and the goroutine of startStream ----
    streaming,      \* tuiModel.streaming
    streamCh,       \* tuiModel.streamCh: [buf, closed]
    listening,      \* a waitForStream command is outstanding
    approval,       \* tuiModel.approval (NoRequest: nil)
    approveIdx,     \* tuiModel.approveIdx
    approveMax,     \* tuiModel.approveMax
    autoApprove,    \* tuiModel.autoApprove: the keys mapped to true
    respCh,         \* the `resp` channel of the latest request: [buf, closed]
    goroutine,      \* the goroutine of startStream: its position and the
                    \* locals of its executor callback
    quit,           \* Update has returned tea.Quit
    manualApproval, \* environment: !cfg.AutoApproveCommands and the shell
                    \* executor is in ApprovalModeManual
    requestLog,     \* history: per approval request, the tool call and the
                    \* values sent on its response channel
    executedLog,    \* history: the calls of executeToolCallForAgentApproved
    returnLog,      \* history: what the executor callback returned
    nTuiCalls       \* environment: executor callbacks invoked so far

agentVars == <<variant, pc, messages, iterations, providerCalls, toolCalls,
               toolResults, finalResponse, execLog, out, result, roundStart,
               roundReply, roundExecStart, nMulti, nExecErr>>

limiterVars == <<now, window, maxTokens, maxRequests, windowStart, usedTokens,
                 usedRequests, callers, admitted, limitsFixed, admitLog,
                 nWaitCalls, observer, reports>>

decoderVars == <<scenario, stream, status, chunks, emitted, currentTool,
                 currentToolCalls>>

providerVars == <<pvendor, apiKeySet, ppc, pret, httpRequests, callbacks,
                  granted, headers, nProviderCalls>>

chatVars == <<chatRet>>

requestVars == <<pmessages, requestBody, presponse, perror>>

managerVars == <<lastOp, summarized, nManagerOps>>

estimatorVars == <<estArgs, estValues, estDone>>

tuiVars == <<streaming, streamCh, listening, approval, approveIdx, approveMax,
             autoApprove, respCh, goroutine, quit, manualApproval, requestLog,
             executedLog, returnLog, nTuiCalls>>

vars == <<agentVars, limiterVars, decoderVars, providerVars, chatVars,
          requestVars, managerVars, estimatorVars, tuiVars>>

(***************************************************************************)
(* Bounds of the environment.                                              *)
(***************************************************************************)
MaxMultiRounds == 1
MaxExecErrors == 1
MaxTime == 3
MaxWaitCalls == 2
MaxTokenArg == 2
MaxFixedCalls == 3
MaxProviderCalls == 2
MaxRecords == 4
MaxManagerOps == 3
MaxEstMessages == 2
MaxTuiCalls == 2

(***************************************************************************)
(* Sequence helpers.                                                       *)
(***************************************************************************)
RECURSIVE Flatten(_)
\* strings.Builder: the concatenation of a sequence of texts
Flatten(ss) == IF ss = << >> THEN << >> ELSE Head(ss) \o Flatten(Tail(ss))

RECURSIVE Join(_, _)
\* strings.Join(ss, sep)
Join(ss, sep) ==
    IF ss = << >> THEN << >>
    ELSE IF Len(ss) = 1 THEN ss[1]
    ELSE ss[1] \o sep \o Join(Tail(ss), sep)

RECURSIVE FilterNotSystem(_)
FilterNotSystem(ms) ==
    IF ms = << >> THEN << >>
    ELSE IF Head(ms).role # "system"
         THEN <<Head(ms)>> \o FilterNotSystem(Tail(ms))
         ELSE FilterNotSystem(Tail(ms))

(***************************************************************************)
(* chat.Manager                                                            *)
(***************************************************************************)
Msg(role, content) == [role |-> role, content |-> content]

\* Mutant: the new message is put in front of the history.
AddMessagePrepend(ms, role, content) == <<Msg(role, content)>> \o ms

AddMessage(ms, role, content) == Append(ms, Msg(role, content))

\* Mutant: the old system messages stay.
SetSystemPromptKeep(ms, prompt) == <<Msg("system", prompt)>> \o ms

SetSystemPrompt(ms, prompt) == <<Msg("system", prompt)>> \o FilterNotSystem(ms)

\* chat.FormatToolCall: <tool_result name="N" status="S">R</tool_result>
FormatToolCall(toolName, res, success) ==
    <<"<tool_result name=", toolName, " status=",
      IF success THEN "success" ELSE "failure", ">">>
    \o res \o <<"</tool_result>">>

(***************************************************************************)
(* The agent's collaborators: the provider's replies and the executor.     *)
(***************************************************************************)
ToolA == [id |-> "call_1", name |-> "execute_command"]
ToolB == [id |-> "call_2", name |-> "read_file"]

\* What one llmProvider.StreamChatWithTools call does before it returns:
\* the chunks it hands to onChunk, the tool calls it hands to onToolCall,
\* and whether it returns an error.
Reply(texts, calls, err) == [chunks |-> texts, calls |-> calls, err |-> err]

NoReply == Reply(<< >>, << >>, FALSE)

Replies ==
    { Reply(<< <<"Task">>, <<"completed">> >>, << >>, FALSE),   \* text only
      Reply(<< >>, << >>, FALSE),                               \* empty reply
      Reply(<< <<"I'll execute">> >>, <<ToolA>>, FALSE),        \* one call
      Reply(<< >>, <<ToolB, ToolA>>, FALSE),                    \* two calls
      Reply(<< <<"partial">> >>, << >>, TRUE),                  \* failed call
      Reply(<< >>, <<ToolA>>, TRUE) }           \* failed after a tool call

\* The executor callback's outcomes: (result, nil) or ("", err).
ExecOutcomes == { [ok |-> TRUE, text |-> <<"result">>],
                  [ok |-> FALSE, text |-> <<"cancelled">>] }

SystemPrompt == <<"system prompt">>
Task == <<"task">>

\* The message sequences a task may start from.
InitialMessages ==
    { << >>,
      <<Msg("system", <<"old prompt">>), Msg("user", <<"earlier">>),
        Msg("assistant", <<"answer">>)>> }

maxIterations == 10

\* Mutant: the provider's error is not looked at.
CallFailedIgnored(r) == FALSE

\* `if err != nil` after llmProvider.StreamChatWithTools
CallFailed(r) == r.err

\* Mutant: the loop admits one round too many.
LoopGuardOffByOne(n) == n <= maxIterations

\* The loop condition `iterations < a.maxIterations`.
LoopGuard(n) == n < maxIterations

\* The record appended to toolResults for one executed tool call.
ToolResultRecord(call, outcome) ==
    IF outcome.ok
    THEN FormatToolCall(call.name, outcome.text, TRUE)
    ELSE FormatToolCall(call.name, <<"error: ">> \o outcome.text, FALSE)

\* strings.Join(toolResults, "\n\n")
ToolResultsText(results) == Join(results, <<"\n\n">>)

ProgressNote == <<"\n\n[tools done, next step...]\n\n">>

(***************************************************************************)
(* Agent.StreamTask                                                        *)
(***************************************************************************)
AgentInit ==
    /\ variant = "none"
    /\ pc = "idle"
    /\ messages \in InitialMessages
    /\ iterations = 0
    /\ providerCalls = 0
    /\ toolCalls = << >>
    /\ toolResults = << >>
    /\ finalResponse = << >>
    /\ execLog = << >>
    /\ out = << >>
    /\ result = "none"
    /\ roundStart = << >>
    /\ roundReply = NoReply
    /\ roundExecStart = 0
    /\ nMulti = 0
    /\ nExecErr = 0

\* The environment's bound on two-call replies.
ReplyAllowed(r) == Len(r.calls) >= 2 => nMulti < MaxMultiRounds

\* agent.go:166-174 (StreamTask) and agent.go:33-42 (ExecuteTask)
StartTask(v) ==
    /\ pc = "idle"
    /\ variant' = v
    /\ messages' = AddMessage(SetSystemPrompt(messages, SystemPrompt), "user", Task)
    /\ iterations' = 0
    /\ pc' = "loop"
    /\ UNCHANGED <<providerCalls, toolCalls, toolResults, finalResponse, execLog,
                   out, result, roundStart, roundReply, roundExecStart, nMulti,
                   nExecErr>>
    /\ UNCHANGED <<limiterVars, decoderVars, providerVars,
                   chatVars, requestVars, managerVars, estimatorVars, tuiVars>>

StreamTaskStart == StartTask("stream")

ExecuteTaskStart == StartTask("execute")

\* agent.go:176-208: one pass of the loop body up to the tool dispatch.
StreamTaskRound ==
    /\ UNCHANGED <<limiterVars, decoderVars, providerVars,
                   chatVars, requestVars, managerVars, estimatorVars, tuiVars>>
    /\ variant = "stream"
    /\ pc = "loop"
    /\ LoopGuard(iterations)
    /\ \E r \in Replies :
        /\ ReplyAllowed(r)
        /\ iterations' = iterations + 1
        /\ providerCalls' = providerCalls + 1
        /\ roundStart' = messages
        /\ roundReply' = r
        /\ roundExecStart' = Len(execLog)
        /\ nMulti' = IF Len(r.calls) >= 2 THEN nMulti + 1 ELSE nMulti
        /\ out' = out \o r.chunks
        /\ toolResults' = << >>
        /\ IF CallFailed(r)
           THEN /\ result' = "err_llm"
                /\ pc' = "done"
                /\ UNCHANGED <<messages, toolCalls>>
           ELSE IF Flatten(r.chunks) = << >> /\ Len(r.calls) = 0
           THEN /\ result' = "err_empty"
                /\ pc' = "done"
                /\ UNCHANGED <<messages, toolCalls>>
           ELSE IF Len(r.calls) = 0
           THEN /\ messages' = AddMessage(messages, "assistant", Flatten(r.chunks))
                /\ result' = "ok"
                /\ pc' = "done"
                /\ UNCHANGED toolCalls
           ELSE /\ toolCalls' = r.calls
                /\ pc' = "dispatch"
                /\ UNCHANGED <<messages, result>>
    /\ UNCHANGED <<variant, finalResponse, execLog, nExecErr>>

\* Mutant: the dispatch loop walks the tool calls backwards.
NextToolCallReversed(calls, results) == calls[Len(calls) - Len(results)]

\* The tool call the dispatch loop runs next,
\* `for _, toolCall := range toolCalls`.
NextToolCall(calls, results) == calls[Len(results) + 1]

\* agent.go:210-227: one turn of the dispatch loop; after the last tool call
\* the results are joined and appended, and the loop continues.
StreamTaskDispatch ==
    /\ UNCHANGED <<limiterVars, decoderVars, providerVars,
                   chatVars, requestVars, managerVars, estimatorVars, tuiVars>>
    /\ variant = "stream"
    /\ pc = "dispatch"
    /\ \E o \in ExecOutcomes :
        LET call == NextToolCall(toolCalls, toolResults)
            results == Append(toolResults, ToolResultRecord(call, o))
        IN  /\ ~o.ok => nExecErr < MaxExecErrors
            /\ nExecErr' = IF o.ok THEN nExecErr ELSE nExecErr + 1
            /\ execLog' = Append(execLog, [call |-> call, outcome |-> o])
            /\ toolResults' = results
            /\ IF Len(results) = Len(toolCalls)
               THEN /\ messages' = AddMessage(messages, "user", ToolResultsText(results))
                    /\ out' = Append(out, ProgressNote)
                    /\ pc' = "loop"
               ELSE UNCHANGED <<messages, out, pc>>
    /\ UNCHANGED <<variant, iterations, providerCalls, toolCalls, finalResponse,
                   result, roundStart, roundReply, roundExecStart, nMulti>>

\* agent.go:176, 229: the loop condition fails and StreamTask returns nil.
StreamTaskExit ==
    /\ UNCHANGED <<limiterVars, decoderVars, providerVars,
                   chatVars, requestVars, managerVars, estimatorVars, tuiVars>>
    /\ variant = "stream"
    /\ pc = "loop"
    /\ ~LoopGuard(iterations)
    /\ result' = "ok"
    /\ pc' = "done"
    /\ UNCHANGED <<variant, messages, iterations, providerCalls, toolCalls,
                   toolResults, finalResponse, execLog, out, roundStart,
                   roundReply, roundExecStart, nMulti, nExecErr>>

(***************************************************************************)
(* Agent.ExecuteTask                                                       *)
(***************************************************************************)
\* agent.go:44-73 and, on `break`, 94-97.
ExecuteTaskRound ==
    /\ UNCHANGED <<limiterVars, decoderVars, providerVars,
                   chatVars, requestVars, managerVars, estimatorVars, tuiVars>>
    /\ variant = "execute"
    /\ pc = "loop"
    /\ LoopGuard(iterations)
    /\ \E r \in Replies :
        /\ ReplyAllowed(r)
        /\ iterations' = iterations + 1
        /\ providerCalls' = providerCalls + 1
        /\ roundStart' = messages
        /\ roundReply' = r
        /\ roundExecStart' = Len(execLog)
        /\ nMulti' = IF Len(r.calls) >= 2 THEN nMulti + 1 ELSE nMulti
        /\ toolResults' = << >>
        /\ IF CallFailed(r)
           THEN /\ result' = "err_llm"
                /\ pc' = "done"
                /\ UNCHANGED <<messages, toolCalls, finalResponse>>
           ELSE LET response == Flatten(r.chunks)
                    final == finalResponse \o response \o <<"\n\n">>
                IN  /\ finalResponse' = final
                    /\ IF Len(r.calls) = 0
                       THEN /\ messages' = AddMessage(
                                   AddMessage(messages, "assistant", response),
                                   "assistant", final)
                            /\ result' = "ok"
                            /\ pc' = "done"
                            /\ UNCHANGED toolCalls
                       ELSE /\ toolCalls' = r.calls
                            /\ pc' = "dispatch"
                            /\ UNCHANGED <<messages, result>>
    /\ UNCHANGED <<variant, execLog, out, nExecErr>>

\* agent.go:75-88
ExecuteTaskDispatch ==
    /\ UNCHANGED <<limiterVars, decoderVars, providerVars,
                   chatVars, requestVars, managerVars, estimatorVars, tuiVars>>
    /\ variant = "execute"
    /\ pc = "dispatch"
    /\ \E o \in ExecOutcomes :
        LET call == NextToolCall(toolCalls, toolResults)
            results == Append(toolResults, ToolResultRecord(call, o))
        IN  /\ ~o.ok => nExecErr < MaxExecErrors
            /\ nExecErr' = IF o.ok THEN nExecErr ELSE nExecErr + 1
            /\ execLog' = Append(execLog, [call |-> call, outcome |-> o])
            /\ toolResults' = results
            /\ IF Len(results) = Len(toolCalls)
               THEN /\ messages' = AddMessage(messages, "user", ToolResultsText(results))
                    /\ pc' = "loop"
               ELSE UNCHANGED <<messages, pc>>
    /\ UNCHANGED <<variant, iterations, providerCalls, toolCalls, finalResponse,
                   out, result, roundStart, roundReply, roundExecStart, nMulti>>

\* agent.go:44, 94-97: the loop condition fails; the accumulated response is
\* appended and returned.
ExecuteTaskExit ==
    /\ UNCHANGED <<limiterVars, decoderVars, providerVars,
                   chatVars, requestVars, managerVars, estimatorVars, tuiVars>>
    /\ variant = "execute"
    /\ pc = "loop"
    /\ ~LoopGuard(iterations)
    /\ messages' = AddMessage(messages, "assistant", finalResponse)
    /\ result' = "ok"
    /\ pc' = "done"
    /\ UNCHANGED <<variant, iterations, providerCalls, toolCalls, toolResults,
                   finalResponse, execLog, out, roundStart, roundReply,
                   roundExecStart, nMulti, nExecErr>>

(***************************************************************************)
(* llm.RateLimiter                                                         *)
(***************************************************************************)
Callers == {"g1", "g2"}

\* The limits and window lengths a limiter is constructed with
\* (NewRateLimiter takes any values; <= 0 disables a limit).
InitialMaxTokens == {0, 2}
InitialMaxRequests == {0, 2}
Windows == {0, 2}

\* The arguments of Wait and of UpdateLimits.
TokenArgs == (-1)..MaxTokenArg
LimitArgs == {-1, 0, 1, 2}

RECURSIVE Sum(_)
Sum(ns) == IF ns = << >> THEN 0 ELSE Head(ns) + Sum(Tail(ns))

\* A goroutine outside Wait.  `reserved` is history: the token counts of the
\* reservations the goroutine's current Wait call has committed.
IdleCaller ==
    [pc |-> "idle", tokens |-> 0, wait |-> 0, wake |-> 0, ret |-> "none",
     reserved |-> << >>]

LimiterIdle ==
    /\ now = 1
    /\ window = 2
    /\ maxTokens = 0
    /\ maxRequests = 0
    /\ windowStart = 0
    /\ usedTokens = 0
    /\ usedRequests = 0
    /\ callers = [c \in Callers |-> IdleCaller]
    /\ admitted = << >>
    /\ limitsFixed = TRUE
    /\ admitLog = << >>
    /\ nWaitCalls = 0
    /\ observer = [c \in Callers |-> FALSE]
    /\ reports = [c \in Callers |-> << >>]

\* Token limits that include one below the largest argument of Wait.
TightMaxTokens == InitialMaxTokens \cup {1}

\* NewRateLimiter(window, maxTokens, maxRequests), the token limit taken
\* from the given set.
NewRateLimiterWith(tokenLimits) ==
    /\ now = 1
    /\ window \in Windows
    /\ maxTokens \in tokenLimits
    /\ maxRequests \in InitialMaxRequests
    /\ windowStart = 0
    /\ usedTokens = 0
    /\ usedRequests = 0
    /\ callers = [c \in Callers |-> IdleCaller]
    /\ admitted = << >>
    /\ limitsFixed = TRUE
    /\ admitLog = << >>
    /\ nWaitCalls = 0
    /\ observer = [c \in Callers |-> FALSE]
    /\ reports = [c \in Callers |-> << >>]

NewRateLimiter == NewRateLimiterWith(InitialMaxTokens)

\* Mutant: a window that has started never expires.
WindowNeverExpires(start, t, w) == start = 0

\* rate_limit.go:82: the window has never started or has expired.
WindowExpired(start, t, w) == start = 0 \/ t - start >= w

\* Mutant: the admission test forgets the tokens being asked for.
TokensOKIgnoringRequest(used, tokens, limit) == limit <= 0 \/ used <= limit

\* Mutant: the admission test refuses a reservation that just fits.
TokensOKStrict(used, tokens, limit) == limit <= 0 \/ used + tokens < limit

\* rate_limit.go:88
TokensOK(used, tokens, limit) == limit <= 0 \/ used + tokens <= limit

\* rate_limit.go:89
RequestsOK(used, limit) == limit <= 0 \/ used + 1 <= limit

\* rate_limit.go:91: l.usedTokens += tokens
CommitTokens(used, tokens) == used + tokens

\* Mutant: reserve reports a full window's wait after it has committed.
AdmittedWaitWindow(w) == w

\* rate_limit.go:93: `return 0` after the reservation is committed.
AdmittedWait(w) == 0

\* rate_limit.go:96-100: the wait returned when the reservation is refused.
RemainingWait(start, w, t) ==
    LET wait == start + w - t IN IF wait < 0 THEN 0 ELSE wait

\* Mutant: the reporter is not told that a wait has ended.
reportRateLimitBeginOnly(present, log, wait, waiting) ==
    IF present /\ waiting
    THEN Append(log, [wait |-> wait, waiting |-> waiting])
    ELSE log

\* rate_limit.go:34-41: the reporter of the context, if any, is invoked.
reportRateLimit(present, log, wait, waiting) ==
    IF present
    THEN Append(log, [wait |-> wait, waiting |-> waiting])
    ELSE log

\* rate_limit.go:51-57: Wait is entered, with or without a reporter in its
\* context; a negative token count becomes 0.
EnterWaitObserved(c, present) ==
    /\ callers[c].pc = "idle"
    /\ \E t \in TokenArgs :
         callers' = [callers EXCEPT ![c] =
                        [IdleCaller EXCEPT !.pc = "reserve",
                                           !.tokens = IF t < 0 THEN 0 ELSE t]]
    /\ nWaitCalls' = nWaitCalls + 1
    /\ reports' = [reports EXCEPT ![c] = << >>]
    /\ observer' = [observer EXCEPT ![c] = present]
    /\ UNCHANGED <<now, window, maxTokens, maxRequests, windowStart, usedTokens,
                   usedRequests, admitted, limitsFixed, admitLog>>
    /\ UNCHANGED <<agentVars, decoderVars, providerVars,
                   chatVars, requestVars, managerVars, estimatorVars, tuiVars>>

\* Wait is entered with a context that carries no reporter.
EnterWait(c) == EnterWaitObserved(c, FALSE)

\* A goroutine calls Wait, as one of the MaxWaitCalls calls of the run.
WaitCall(c) == nWaitCalls < MaxWaitCalls /\ EnterWait(c)

\* rate_limit.go:59-65 with reserve (77-101) run under the mutex: one call of
\* reserve, then either the return of Wait or the start of the timer.
ReserveStep(c) ==
    /\ callers[c].pc = "reserve"
    /\ LET tokens == callers[c].tokens
           reset == WindowExpired(windowStart, now, window)
           start == IF reset THEN now ELSE windowStart
           usedT == IF reset THEN 0 ELSE usedTokens
           usedR == IF reset THEN 0 ELSE usedRequests
           adm == IF reset THEN << >> ELSE admitted
           ok == TokensOK(usedT, tokens, maxTokens) /\ RequestsOK(usedR, maxRequests)
           wait == IF ok THEN AdmittedWait(window)
                         ELSE RemainingWait(start, window, now)
           res == IF ok THEN Append(callers[c].reserved, tokens)
                        ELSE callers[c].reserved
       IN  /\ windowStart' = start
           /\ limitsFixed' = (reset \/ limitsFixed)
           /\ IF ok
              THEN /\ usedTokens' = CommitTokens(usedT, tokens)
                   /\ usedRequests' = usedR + 1
                   /\ admitted' = Append(adm, tokens)
              ELSE /\ usedTokens' = usedT
                   /\ usedRequests' = usedR
                   /\ admitted' = adm
           /\ callers' = [callers EXCEPT ![c] =
                  IF wait = 0
                  THEN [@ EXCEPT !.pc = "done", !.wait = 0, !.ret = "ok",
                                 !.reserved = res]
                  ELSE [@ EXCEPT !.pc = "sleep", !.wait = wait,
                                 !.wake = now + wait, !.reserved = res]]
           /\ reports' = [reports EXCEPT ![c] =
                  reportRateLimit(observer[c], @, wait, wait # 0)]
    /\ UNCHANGED <<now, window, maxTokens, maxRequests, nWaitCalls, observer>>
    /\ UNCHANGED <<agentVars, decoderVars, providerVars,
                   chatVars, requestVars, managerVars, estimatorVars, tuiVars>>

\* The reserve call of Wait, the log of admissions left alone.
Reserve(c) == ReserveStep(c) /\ UNCHANGED admitLog

\* The reserve call of Wait, a committed reservation entered in the log.
ReserveLogged(c) ==
    /\ ReserveStep(c)
    /\ admitLog' = IF callers'[c].reserved # callers[c].reserved
                   THEN Append(admitLog, [t |-> now, tokens |-> callers[c].tokens])
                   ELSE admitLog

\* rate_limit.go:71-73: the timer fires and the loop calls reserve again.
TimerFires(c) ==
    /\ callers[c].pc = "sleep"
    /\ now >= callers[c].wake
    /\ callers' = [callers EXCEPT ![c] = [@ EXCEPT !.pc = "reserve"]]
    /\ reports' = [reports EXCEPT ![c] = reportRateLimit(observer[c], @, 0, FALSE)]
    /\ UNCHANGED <<now, window, maxTokens, maxRequests, windowStart, usedTokens,
                   usedRequests, admitted, limitsFixed, admitLog, nWaitCalls,
                   observer>>
    /\ UNCHANGED <<agentVars, decoderVars, providerVars,
                   chatVars, requestVars, managerVars, estimatorVars, tuiVars>>

\* rate_limit.go:67-70: the caller's context is cancelled during the sleep.
Cancelled(c) ==
    /\ callers[c].pc = "sleep"
    /\ callers' = [callers EXCEPT ![c] = [@ EXCEPT !.pc = "done", !.ret = "cancelled"]]
    /\ reports' = [reports EXCEPT ![c] = reportRateLimit(observer[c], @, 0, FALSE)]
    /\ UNCHANGED <<now, window, maxTokens, maxRequests, windowStart, usedTokens,
                   usedRequests, admitted, limitsFixed, admitLog, nWaitCalls,
                   observer>>
    /\ UNCHANGED <<agentVars, decoderVars, providerVars,
                   chatVars, requestVars, managerVars, estimatorVars, tuiVars>>

\* The goroutine goes on after Wait has returned and may call it again.
WaitReturned(c) ==
    /\ callers[c].pc = "done"
    /\ callers' = [callers EXCEPT ![c] = IdleCaller]
    /\ UNCHANGED <<now, window, maxTokens, maxRequests, windowStart, usedTokens,
                   usedRequests, admitted, limitsFixed, admitLog, nWaitCalls,
                   observer, reports>>
    /\ UNCHANGED <<agentVars, decoderVars, providerVars,
                   chatVars, requestVars, managerVars, estimatorVars, tuiVars>>

\* Mutant: a zero argument replaces the limit too.
NewLimitNonNegative(arg, old) == IF arg >= 0 THEN arg ELSE old

\* rate_limit.go:109-114: `if arg > 0 { limit = arg }`
NewLimit(arg, old) == IF arg > 0 THEN arg ELSE old

\* rate_limit.go:103-115
UpdateLimits ==
    /\ \E tokensPerWindow \in LimitArgs, requestsPerWindow \in LimitArgs :
        /\ maxTokens' = NewLimit(tokensPerWindow, maxTokens)
        /\ maxRequests' = NewLimit(requestsPerWindow, maxRequests)
        /\ limitsFixed' = (limitsFixed /\ maxTokens' = maxTokens
                                       /\ maxRequests' = maxRequests)
    /\ UNCHANGED <<now, window, windowStart, usedTokens, usedRequests, callers,
                   admitted, admitLog, nWaitCalls,
                   observer, reports>>
    /\ UNCHANGED <<agentVars, decoderVars, providerVars,
                   chatVars, requestVars, managerVars, estimatorVars, tuiVars>>

\* Time passes.
Tick ==
    /\ now < MaxTime
    /\ now' = now + 1
    /\ UNCHANGED <<window, maxTokens, maxRequests, windowStart, usedTokens,
                   usedRequests, callers, admitted, limitsFixed, admitLog,
                   nWaitCalls,
                   observer, reports>>
    /\ UNCHANGED <<agentVars, decoderVars, providerVars,
                   chatVars, requestVars, managerVars, estimatorVars, tuiVars>>

LimiterNext ==
    \/ \E c \in Callers : WaitCall(c)
    \/ \E c \in Callers : Reserve(c)
    \/ \E c \in Callers : TimerFires(c)
    \/ \E c \in Callers : Cancelled(c)
    \/ \E c \in Callers : WaitReturned(c)
    \/ UpdateLimits
    \/ Tick

(***************************************************************************)
(* The limiter with the limits it was constructed with (UpdateLimits is    *)
(* never called), under a clock that runs on: a goroutine's reserve call   *)
(* and its wake-up take no time, Wait calls begin up to MaxTime, and the   *)
(* clock runs to Horizon, by when every one of them can have been served.  *)
(***************************************************************************)
LongestWindow == CHOOSE w \in Windows : \A v \in Windows : v <= w

Horizon == MaxTime + LongestWindow * MaxWaitCalls

\* A goroutine calls Wait while the clock is at most MaxTime.
WaitCallEarly(c) == now <= MaxTime /\ WaitCall(c)

\* Some goroutine has a step to take at the present instant.
Busy ==
    \E c \in Callers :
        \/ callers[c].pc = "reserve"
        \/ callers[c].pc = "sleep" /\ now >= callers[c].wake

\* Time passes once every goroutine that can run has run.
TickIdle ==
    /\ ~Busy
    /\ now < Horizon
    /\ now' = now + 1
    /\ UNCHANGED <<window, maxTokens, maxRequests, windowStart, usedTokens,
                   usedRequests, callers, admitted, limitsFixed, admitLog,
                   nWaitCalls,
                   observer, reports>>
    /\ UNCHANGED <<agentVars, decoderVars, providerVars,
                   chatVars, requestVars, managerVars, estimatorVars, tuiVars>>

LimiterFixedNext ==
    \/ \E c \in Callers : WaitCallEarly(c)
    \/ \E c \in Callers : Reserve(c)
    \/ \E c \in Callers : TimerFires(c)
    \/ \E c \in Callers : Cancelled(c)
    \/ \E c \in Callers : WaitReturned(c)
    \/ TickIdle

\* The scheduler runs every runnable goroutine, timers fire, time passes.
LimiterFairness ==
    /\ \A c \in Callers : WF_vars(Reserve(c))
    /\ \A c \in Callers : WF_vars(TimerFires(c))
    /\ WF_vars(TickIdle)

(***************************************************************************)
(* The limiter with the limits it was constructed with, every admission    *)
(* entered in admitLog with its time, over MaxFixedCalls calls of Wait.    *)
(***************************************************************************)
\* A goroutine calls Wait, as one of the MaxFixedCalls calls of the run.
WaitCallLogged(c) == nWaitCalls < MaxFixedCalls /\ EnterWait(c)

LimiterLoggedNext ==
    \/ \E c \in Callers : WaitCallLogged(c)
    \/ \E c \in Callers : ReserveLogged(c)
    \/ \E c \in Callers : TimerFires(c)
    \/ \E c \in Callers : Cancelled(c)
    \/ \E c \in Callers : WaitReturned(c)
    \/ Tick

(***************************************************************************)
(* The limiter with the limits it was constructed with, some of its        *)
(* callers with a RateLimitReporter in their context                       *)
(* (WithRateLimitReporter), over MaxWaitCalls calls of Wait.               *)
(***************************************************************************)
\* A goroutine calls Wait, with a reporter or without one.
WaitCallObserved(c) ==
    /\ nWaitCalls < MaxWaitCalls
    /\ \E present \in BOOLEAN : EnterWaitObserved(c, present)

LimiterObservedNext ==
    \/ \E c \in Callers : WaitCallObserved(c)
    \/ \E c \in Callers : Reserve(c)
    \/ \E c \in Callers : TimerFires(c)
    \/ \E c \in Callers : Cancelled(c)
    \/ \E c \in Callers : WaitReturned(c)
    \/ Tick

(***************************************************************************)
(* Quota headers.  A header value is a text, a sequence of characters;     *)
(* << >> is the value of an absent header (http.Header.Get returns "").    *)
(***************************************************************************)
Digits == {"0", "1", "2", "3", "4", "5", "6", "7", "8", "9"}

DigitValue(ch) ==
    CASE ch = "0" -> 0 [] ch = "1" -> 1 [] ch = "2" -> 2 [] ch = "3" -> 3
      [] ch = "4" -> 4 [] ch = "5" -> 5 [] ch = "6" -> 6 [] ch = "7" -> 7
      [] ch = "8" -> 8 [] ch = "9" -> 9

RECURSIVE TrimLeft(_)
TrimLeft(text) ==
    IF text # << >> /\ Head(text) = " " THEN TrimLeft(Tail(text)) ELSE text

RECURSIVE TrimRight(_)
TrimRight(text) ==
    IF text # << >> /\ text[Len(text)] = " "
    THEN TrimRight(SubSeq(text, 1, Len(text) - 1))
    ELSE text

\* strings.TrimSpace
TrimSpace(text) == TrimRight(TrimLeft(text))

AllDigits(text) == \A i \in 1..Len(text) : text[i] \in Digits

RECURSIVE DecimalValue(_)
\* The number a sequence of digits denotes.
DecimalValue(ds) ==
    IF ds = << >> THEN 0
    ELSE 10 * DecimalValue(SubSeq(ds, 1, Len(ds) - 1)) + DigitValue(ds[Len(ds)])

\* A number text without its sign, and the sign.
Unsigned(text) ==
    IF text # << >> /\ Head(text) \in {"+", "-"} THEN Tail(text) ELSE text

Signed(text, n) == IF text # << >> /\ Head(text) = "-" THEN 0 - n ELSE n

\* strconv.Atoi: an optional sign and one or more digits.
Atoi(text) ==
    LET body == Unsigned(text)
    IN  IF body # << >> /\ AllDigits(body)
        THEN [ok |-> TRUE, n |-> Signed(text, DecimalValue(body))]
        ELSE [ok |-> FALSE, n |-> 0]

\* strconv.ParseFloat on a decimal text with one point (no exponent), and
\* the conversion int(f), which drops the fraction: an optional sign, digits,
\* a point, digits, with a digit on at least one side.
ParseFloatToInt(text) ==
    LET body == Unsigned(text)
        dots == {i \in 1..Len(body) : body[i] = "."}
    IN  IF Cardinality(dots) = 1
        THEN LET d == CHOOSE i \in dots : TRUE
                 whole == SubSeq(body, 1, d - 1)
                 frac == SubSeq(body, d + 1, Len(body))
             IN  IF AllDigits(whole) /\ AllDigits(frac) /\ Len(whole) + Len(frac) >= 1
                 THEN [ok |-> TRUE, n |-> Signed(text, DecimalValue(whole))]
                 ELSE [ok |-> FALSE, n |-> 0]
        ELSE [ok |-> FALSE, n |-> 0]

\* rate_limit.go:124-138
ParseRateLimitHeader(value) ==
    LET v == TrimSpace(value)
    IN  IF v = << >> THEN 0
        ELSE IF (\E i \in 1..Len(v) : v[i] = ".") /\ ParseFloatToInt(v).ok
        THEN ParseFloatToInt(v).n
        ELSE IF Atoi(v).ok THEN Atoi(v).n
        ELSE 0

\* The header values a response may carry.
HeaderValues ==
    { << >>,                    \* absent
      <<"x">>,                  \* malformed
      <<"0">>,
      <<"-", "1">>,
      <<"1">>,
      <<" ", "3", " ">>,
      <<"1", ".", "9">>,
      <<"0", ".", "5">> }

(***************************************************************************)
(* One provider and its StreamChatWithTools calls, made one after another  *)
(* by goroutine TheCaller.  The Anthropic provider owns the rate limiter;  *)
(* the OpenAI provider has none.                                           *)
(***************************************************************************)
TheCaller == "g1"

Vendors == {"anthropic", "openai"}

\* EstimateTokens(messages): at least 1.
Estimates == 1..MaxTokenArg

\* No provider: the state the provider's variables keep elsewhere.
ProviderIdle ==
    /\ pvendor = "none"
    /\ apiKeySet = FALSE
    /\ ppc = "idle"
    /\ pret = "none"
    /\ httpRequests = 0
    /\ callbacks = FALSE
    /\ granted = FALSE
    /\ headers = << >>
    /\ nProviderCalls = 0

\* NewAnthropicProviderWithClient / NewOpenAIProviderWithClient
ProviderInit ==
    /\ pvendor \in Vendors
    /\ apiKeySet \in BOOLEAN
    /\ ppc = "idle"
    /\ pret = "none"
    /\ httpRequests = 0
    /\ callbacks = FALSE
    /\ granted = FALSE
    /\ headers = << >>
    /\ nProviderCalls = 0

\* Mutant: the credential is never found missing.
CredentialNeverMissing(keySet) == FALSE

\* anthropic.go:93, openai.go:108: `if p.apiKey == ""`
CredentialMissing(keySet) == ~keySet

\* anthropic.go:92-96: the credential check, then the call of limiter.Wait.
AnthropicCall ==
    /\ pvendor = "anthropic"
    /\ ppc = "idle"
    /\ nProviderCalls < MaxProviderCalls
    /\ nProviderCalls' = nProviderCalls + 1
    /\ callbacks' = FALSE
    /\ granted' = FALSE
    /\ headers' = << >>
    /\ IF CredentialMissing(apiKeySet)
       THEN /\ ppc' = "returned"
            /\ pret' = "err_key"
            /\ UNCHANGED <<callers, nWaitCalls>>
       ELSE /\ \E e \in Estimates :
                 callers' = [callers EXCEPT ![TheCaller] =
                                [IdleCaller EXCEPT !.pc = "reserve", !.tokens = e]]
            /\ nWaitCalls' = nWaitCalls + 1
            /\ ppc' = "wait"
            /\ pret' = "none"
    /\ UNCHANGED <<now, window, maxTokens, maxRequests, windowStart, usedTokens,
                   usedRequests, admitted, limitsFixed, admitLog, observer,
                   reports>>
    /\ UNCHANGED <<pvendor, apiKeySet, httpRequests>>
    /\ UNCHANGED <<agentVars, decoderVars,
                   chatVars, requestVars, managerVars, estimatorVars, tuiVars>>

\* anthropic.go:96-98: Wait has returned.
AnthropicWaitReturns ==
    /\ pvendor = "anthropic"
    /\ ppc = "wait"
    /\ callers[TheCaller].pc = "done"
    /\ IF callers[TheCaller].ret = "ok"
       THEN /\ ppc' = "request"
            /\ granted' = (callers[TheCaller].reserved # << >>)
            /\ UNCHANGED pret
       ELSE /\ ppc' = "returned"
            /\ pret' = "err_wait"
            /\ UNCHANGED granted
    /\ callers' = [callers EXCEPT ![TheCaller] = IdleCaller]
    /\ UNCHANGED <<now, window, maxTokens, maxRequests, windowStart, usedTokens,
                   usedRequests, admitted, limitsFixed, admitLog, nWaitCalls,
                   observer, reports>>
    /\ UNCHANGED <<pvendor, apiKeySet, httpRequests, callbacks, headers,
                   nProviderCalls>>
    /\ UNCHANGED <<agentVars, decoderVars,
                   chatVars, requestVars, managerVars, estimatorVars, tuiVars>>

\* anthropic.go:100-192: the request is built and sent; the quota headers of
\* a response are fed to the limiter before its status is looked at.
AnthropicRequest ==
    /\ pvendor = "anthropic"
    /\ ppc = "request"
    /\ \/ /\ ppc' = "returned"          \* no valid message to send
          /\ pret' = "err_nomsg"
          /\ UNCHANGED <<httpRequests, headers, maxTokens, maxRequests,
                         limitsFixed>>
       \/ /\ httpRequests' = httpRequests + 1    \* client.Do fails
          /\ ppc' = "returned"
          /\ pret' = "err_http"
          /\ UNCHANGED <<headers, maxTokens, maxRequests, limitsFixed>>
       \/ \E tokensValue \in HeaderValues, requestsValue \in HeaderValues,
             statusOK \in BOOLEAN :
          /\ httpRequests' = httpRequests + 1
          /\ headers' = <<tokensValue, requestsValue>>
          /\ maxTokens' = NewLimit(ParseRateLimitHeader(tokensValue), maxTokens)
          /\ maxRequests' = NewLimit(ParseRateLimitHeader(requestsValue),
                                     maxRequests)
          /\ limitsFixed' = (limitsFixed /\ maxTokens' = maxTokens
                                         /\ maxRequests' = maxRequests)
          /\ IF statusOK
             THEN ppc' = "stream" /\ UNCHANGED pret
             ELSE ppc' = "returned" /\ pret' = "err_status"
    /\ UNCHANGED <<now, window, windowStart, usedTokens, usedRequests, callers,
                   admitted, admitLog, nWaitCalls,
                   observer, reports>>
    /\ UNCHANGED <<pvendor, apiKeySet, callbacks, granted, nProviderCalls>>
    /\ UNCHANGED <<agentVars, decoderVars,
                   chatVars, requestVars, managerVars, estimatorVars, tuiVars>>

\* openai.go:107-110: the credential check; the request follows at once.
OpenAICall ==
    /\ pvendor = "openai"
    /\ ppc = "idle"
    /\ nProviderCalls < MaxProviderCalls
    /\ nProviderCalls' = nProviderCalls + 1
    /\ callbacks' = FALSE
    /\ granted' = FALSE
    /\ headers' = << >>
    /\ IF CredentialMissing(apiKeySet)
       THEN ppc' = "returned" /\ pret' = "err_key"
       ELSE ppc' = "request" /\ pret' = "none"
    /\ UNCHANGED <<pvendor, apiKeySet, httpRequests>>
    /\ UNCHANGED <<agentVars, limiterVars, decoderVars,
                   chatVars, requestVars, managerVars, estimatorVars, tuiVars>>

\* openai.go:112-175: the request is built and sent.
OpenAIRequest ==
    /\ pvendor = "openai"
    /\ ppc = "request"
    /\ httpRequests' = httpRequests + 1
    /\ \/ ppc' = "returned" /\ pret' = "err_http"
       \/ ppc' = "returned" /\ pret' = "err_status"
       \/ ppc' = "stream" /\ UNCHANGED pret
    /\ UNCHANGED <<pvendor, apiKeySet, callbacks, granted, headers,
                   nProviderCalls>>
    /\ UNCHANGED <<agentVars, limiterVars, decoderVars,
                   chatVars, requestVars, managerVars, estimatorVars, tuiVars>>

\* anthropic.go:193-387, openai.go:177-263: the response body is decoded,
\* callbacks are invoked, and the call returns.
ProviderStream ==
    /\ ppc = "stream"
    /\ callbacks' \in BOOLEAN
    /\ pret' \in {"ok", "err_stream"}
    /\ ppc' = "returned"
    /\ headers' = << >>
    /\ UNCHANGED <<pvendor, apiKeySet, httpRequests, granted, nProviderCalls>>
    /\ UNCHANGED <<agentVars, limiterVars, decoderVars,
                   chatVars, requestVars, managerVars, estimatorVars, tuiVars>>

\* The caller goes on after the call has returned.
ProviderReturned ==
    /\ ppc = "returned"
    /\ ppc' = "idle"
    /\ pret' = "none"
    /\ callbacks' = FALSE
    /\ granted' = FALSE
    /\ headers' = << >>
    /\ UNCHANGED <<pvendor, apiKeySet, httpRequests, nProviderCalls>>
    /\ UNCHANGED <<agentVars, limiterVars, decoderVars,
                   chatVars, requestVars, managerVars, estimatorVars, tuiVars>>

ProviderNext ==
    \/ AnthropicCall
    \/ Reserve(TheCaller)
    \/ TimerFires(TheCaller)
    \/ Cancelled(TheCaller)
    \/ AnthropicWaitReturns
    \/ AnthropicRequest
    \/ OpenAICall
    \/ OpenAIRequest
    \/ ProviderStream
    \/ ProviderReturned
    \/ Tick

(***************************************************************************)
(* JSON argument text.  An argument text is a sequence of tokens: "{", "}",*)
(* ",", " " (white space) and the members "a" and "b", each standing for   *)
(* one "key":value pair ("a" for "command":"ls", "b" for                   *)
(* "description":"list").  A parsed object is the set of its members.      *)
(***************************************************************************)
Members == {"a", "b"}

StripSpace(text) == SelectSeq(text, LAMBDA t : t # " ")

\* json.Unmarshal(text, &map) returns nil: text is one JSON object.
ValidObject(text) ==
    LET s == StripSpace(text)
        n == Len(s)
    IN  /\ n >= 2
        /\ s[1] = "{"
        /\ s[n] = "}"
        /\ \/ n = 2
           \/ /\ n % 2 = 1
              /\ \A i \in 2..(n - 1) :
                    IF i % 2 = 0 THEN s[i] \in Members ELSE s[i] = ","

\* The object json.Unmarshal decodes from a valid text.
ParseObject(text) ==
    LET s == StripSpace(text)
    IN  { s[i] : i \in { j \in 2..(Len(s) - 1) : j % 2 = 0 } }

\* The argument fragments the servers send.
FragOpen == <<"{", "a", ",">>
FragClose == <<"b", "}">>
FragWhole == <<"{", "a", "}">>
FragSpace == <<" ">>

\* A ToolCall.Input map: its JSON members and, when the key is present, the
\* text stored under "_raw_args" (<< >>: the key is absent).
InputMap(obj, raw) == [obj |-> obj, raw |-> raw]

\* A ToolCall handed to onToolCall; frags is history: the argument fragments
\* received for the call from its declaration to its emission, in order.
ToolCall(id, name, input, frags) ==
    [id |-> id, name |-> name, input |-> input, frags |-> frags]

(***************************************************************************)
(* The lines of a response body.  Every record has the same fields; a      *)
(* field a record does not carry is empty.                                 *)
(***************************************************************************)
Rec(kind, id, toolUseID, name, text, partial, input, deltas) ==
    [kind |-> kind, id |-> id, toolUseID |-> toolUseID, name |-> name,
     text |-> text, partial |-> partial, input |-> input, toolCalls |-> deltas]

\* A line the loop skips: blank, without the "data: " prefix, not JSON, or an
\* event the switch has no case for.
SkipLine == Rec("skip", "", "", "", "", << >>, {}, << >>)
\* data: [DONE]
DoneLine == Rec("done", "", "", "", "", << >>, {}, << >>)
\* The body ends (scanner.Scan returns false, scanner.Err is nil).
EndOfInput == Rec("eof", "", "", "", "", << >>, {}, << >>)
\* A line longer than the scanner's buffer (bufio.ErrTooLong).
LineTooLong == Rec("toolong", "", "", "", "", << >>, {}, << >>)
\* A top-level error event.
ErrorEvent == Rec("error", "", "", "", "", << >>, {}, << >>)

\* Anthropic events.
BlockStart(id, toolUseID, name, input) ==
    Rec("content_block_start", id, toolUseID, name, "", << >>, input, << >>)
TextDelta(text) == Rec("text_delta", "", "", "", text, << >>, {}, << >>)
InputJsonDelta(partial) == Rec("input_json_delta", "", "", "", "", partial, {}, << >>)
\* delta.type "tool_use": partial holds the string values of delta.input,
\* input its other values.
LegacyToolUse(toolUseID, name, partial, input) ==
    Rec("tool_use_delta", "", toolUseID, name, "", partial, input, << >>)
BlockStop == Rec("content_block_stop", "", "", "", "", << >>, {}, << >>)
MessageStop == Rec("message_stop", "", "", "", "", << >>, {}, << >>)

\* OpenAI: one element of choices[0].delta.tool_calls.
ToolCallDelta(index, id, name, arguments) ==
    [index |-> index, id |-> id, name |-> name, arguments |-> arguments]
\* OpenAI: a chunk with choices[0].delta = {content, tool_calls}.
Chunk(content, deltas) == Rec("chunk", "", "", "", content, << >>, {}, deltas)

(***************************************************************************)
(* The streaming calls explored: per call the provider, whether the caller *)
(* passed an onToolCall, and the records the server draws its lines from.  *)
(***************************************************************************)
Scenario(vendor, onToolCall, records) ==
    [vendor |-> vendor, onToolCall |-> onToolCall, records |-> records]

Scenarios ==
    { \* Anthropic: one tool call assembled from fragments, with text around it
      Scenario("anthropic", TRUE,
               { TextDelta("x"), BlockStart("toolu_1", "", "tool1", {}),
                 InputJsonDelta(FragOpen), InputJsonDelta(FragClose),
                 InputJsonDelta(FragSpace), BlockStop }),
      \* Anthropic: text deltas between skipped lines and tool records
      Scenario("anthropic", TRUE,
               { SkipLine, TextDelta(""), TextDelta("x"), TextDelta("y"),
                 BlockStart("toolu_1", "", "tool1", {}), InputJsonDelta(FragWhole) }),
      \* Anthropic: declarations with and without id and name
      Scenario("anthropic", TRUE,
               { BlockStart("toolu_1", "", "tool1", {}), BlockStart("", "", "tool1", {}),
                 BlockStart("toolu_1", "", "", {}), BlockStart("", "toolu_2", "tool2", {"b"}),
                 LegacyToolUse("toolu_3", "tool3", FragWhole, {"b"}),
                 LegacyToolUse("", "", << >>, {}),
                 InputJsonDelta(FragWhole), BlockStop }),
      \* Anthropic: StreamChat, no onToolCall
      Scenario("anthropic", FALSE,
               { TextDelta("x"), BlockStart("toolu_1", "", "tool1", {}),
                 InputJsonDelta(FragWhole), BlockStop }),
      \* OpenAI: one tool call assembled from fragments, with text around it
      Scenario("openai", TRUE,
               { Chunk("x", << >>),
                 Chunk("", <<ToolCallDelta(0, "call_1", "tool1", << >>)>>),
                 Chunk("", <<ToolCallDelta(0, "", "", FragOpen)>>),
                 Chunk("", <<ToolCallDelta(0, "", "", FragClose)>>),
                 Chunk("", <<ToolCallDelta(0, "", "", FragWhole)>>),
                 Chunk("", <<ToolCallDelta(0, "", "", FragSpace)>>) }),
      \* OpenAI: text deltas between skipped lines and tool records
      Scenario("openai", TRUE,
               { SkipLine, ErrorEvent, Chunk("", << >>), Chunk("x", << >>),
                 Chunk("y", <<ToolCallDelta(0, "call_1", "tool1", FragWhole)>>),
                 Chunk("", <<ToolCallDelta(0, "", "", FragSpace)>>) }),
      \* OpenAI: declarations with and without id and name, two indices
      Scenario("openai", TRUE,
               { Chunk("", <<ToolCallDelta(0, "call_1", "tool1", << >>)>>),
                 Chunk("", <<ToolCallDelta(0, "call_1", "", << >>)>>),
                 Chunk("", <<ToolCallDelta(1, "", "tool2", FragWhole)>>),
                 Chunk("", <<ToolCallDelta(1, "call_2", "", << >>)>>),
                 Chunk("", <<ToolCallDelta(0, "call_3", "tool3", FragWhole),
                             ToolCallDelta(1, "call_2", "tool2", FragWhole)>>),
                 Chunk("x", << >>) }),
      \* OpenAI: StreamChat, no onToolCall
      Scenario("openai", FALSE,
               { Chunk("x", << >>),
                 Chunk("y", <<ToolCallDelta(0, "call_1", "tool1", FragWhole)>>) }) }

(***************************************************************************)
(* AnthropicProvider.StreamChatWithTools: the SSE loop                     *)
(***************************************************************************)
\* The toolBuffer behind `currentTool`; active = FALSE is the nil pointer.
\* A nil input map is the empty map: finalizeTool and the legacy branch
\* replace it by one before it is used.  frags is history: the fragments
\* written to inputJSON, one by one.
ToolBuffer(id, name, input, inputJSON, frags) ==
    [active |-> TRUE, id |-> id, name |-> name, input |-> input,
     inputJSON |-> inputJSON, frags |-> frags]

NoTool == [active |-> FALSE, id |-> "", name |-> "", input |-> {}, inputJSON |-> << >>,
           frags |-> << >>]

\* Mutant: only the id is required.
IncompleteIdOnly(id, name, onToolCall) == id = "" \/ ~onToolCall

\* anthropic.go:212: the buffer is dropped instead of delivered.
Incomplete(id, name, onToolCall) == id = "" \/ name = "" \/ ~onToolCall

\* anthropic.go:219-231: the input delivered: json.Unmarshal decodes the
\* accumulated text into the buffer's map, which keeps the keys it had.
FinalInput(tool) ==
    IF tool.inputJSON # << >> /\ ValidObject(tool.inputJSON)
    THEN InputMap(tool.input \cup ParseObject(tool.inputJSON), << >>)
    ELSE InputMap(tool.input, << >>)

\* anthropic.go:208-241: the onToolCall invocations finalizeTool makes
\* (none or one); the buffer is nil afterwards in every case.
FinalizeTool(tool, onToolCall) ==
    IF ~tool.active THEN << >>
    ELSE IF Incomplete(tool.id, tool.name, onToolCall) THEN << >>
    ELSE <<ToolCall(tool.id, tool.name, FinalInput(tool), tool.frags)>>

\* Mutant: a text delta equal to the previous one is taken for a repeat.
EmitTextOnce(log, text) ==
    IF text # "" /\ (log = << >> \/ log[Len(log)] # text) THEN Append(log, text) ELSE log

\* anthropic.go:308-310, openai.go:204-206: a non-empty text delta goes to
\* onChunk at once.
EmitText(log, text) == IF text # "" THEN Append(log, text) ELSE log

\* The scanner delivers the next line r of the body.
Scan(r, vendor) ==
    /\ status = "scanning"
    /\ scenario.vendor = vendor
    /\ Len(stream) < MaxRecords
    /\ r \in scenario.records
    /\ stream' = Append(stream, r)

\* The body's last line or its end is reached, whatever was read before.
ScanLast(r, vendor) ==
    /\ status = "scanning"
    /\ scenario.vendor = vendor
    /\ stream' = Append(stream, r)

\* Mutant: a line that is not valid JSON is fatal.
AnthropicSkipFatal ==
    /\ Scan(SkipLine, "anthropic")
    /\ status' = "error"
    /\ UNCHANGED <<scenario, chunks, emitted, currentTool, currentToolCalls>>
    /\ UNCHANGED <<agentVars, limiterVars, providerVars,
                   chatVars, requestVars, managerVars, estimatorVars, tuiVars>>

\* anthropic.go:246-268 and the events the switch ignores.
AnthropicSkip ==
    /\ Scan(SkipLine, "anthropic")
    /\ UNCHANGED <<scenario, status, chunks, emitted, currentTool, currentToolCalls>>
    /\ UNCHANGED <<agentVars, limiterVars, providerVars,
                   chatVars, requestVars, managerVars, estimatorVars, tuiVars>>

\* anthropic.go:253-256: data: [DONE] breaks out of the loop.
AnthropicDone ==
    /\ ScanLast(DoneLine, "anthropic")
    /\ status' = "ok"
    /\ UNCHANGED <<scenario, chunks, emitted, currentTool, currentToolCalls>>
    /\ UNCHANGED <<agentVars, limiterVars, providerVars,
                   chatVars, requestVars, managerVars, estimatorVars, tuiVars>>

\* anthropic.go:276-297: content_block_start of a tool_use block.
AnthropicContentBlockStart ==
    /\ \E r \in scenario.records :
        /\ r.kind = "content_block_start"
        /\ Scan(r, "anthropic")
        /\ emitted' = emitted \o FinalizeTool(currentTool, scenario.onToolCall)
        /\ currentTool' = ToolBuffer(IF r.id = "" THEN r.toolUseID ELSE r.id,
                                     r.name, r.input, << >>, << >>)
    /\ UNCHANGED <<scenario, status, chunks, currentToolCalls>>
    /\ UNCHANGED <<agentVars, limiterVars, providerVars,
                   chatVars, requestVars, managerVars, estimatorVars, tuiVars>>

\* anthropic.go:308-310: content_block_delta with a text_delta.
AnthropicTextDelta ==
    /\ \E r \in scenario.records :
        /\ r.kind = "text_delta"
        /\ Scan(r, "anthropic")
        /\ chunks' = EmitText(chunks, r.text)
    /\ UNCHANGED <<scenario, status, emitted, currentTool, currentToolCalls>>
    /\ UNCHANGED <<agentVars, limiterVars, providerVars,
                   chatVars, requestVars, managerVars, estimatorVars, tuiVars>>

\* anthropic.go:311-320: content_block_delta with an input_json_delta.
AnthropicInputJsonDelta ==
    /\ \E r \in scenario.records :
        /\ r.kind = "input_json_delta"
        /\ Scan(r, "anthropic")
        /\ currentTool' =
              IF r.partial # << >> /\ currentTool.active
              THEN [currentTool EXCEPT !.inputJSON = @ \o r.partial,
                                       !.frags = Append(@, r.partial)]
              ELSE currentTool
    /\ UNCHANGED <<scenario, status, chunks, emitted, currentToolCalls>>
    /\ UNCHANGED <<agentVars, limiterVars, providerVars,
                   chatVars, requestVars, managerVars, estimatorVars, tuiVars>>

\* anthropic.go:321-349: content_block_delta of the legacy type "tool_use".
AnthropicLegacyToolUse ==
    /\ \E r \in scenario.records :
        /\ r.kind = "tool_use_delta"
        /\ Scan(r, "anthropic")
        /\ LET tool == IF currentTool.active THEN currentTool
                       ELSE ToolBuffer("", "", {}, << >>, << >>)
           IN  currentTool' =
                 [tool EXCEPT
                    !.id = IF r.toolUseID # "" /\ @ = "" THEN r.toolUseID ELSE @,
                    !.name = IF r.name # "" /\ @ = "" THEN r.name ELSE @,
                    !.inputJSON = @ \o r.partial,
                    !.frags = IF r.partial # << >> THEN Append(@, r.partial) ELSE @,
                    !.input = @ \cup r.input]
    /\ UNCHANGED <<scenario, status, chunks, emitted, currentToolCalls>>
    /\ UNCHANGED <<agentVars, limiterVars, providerVars,
                   chatVars, requestVars, managerVars, estimatorVars, tuiVars>>

\* anthropic.go:357-362
AnthropicContentBlockStop ==
    /\ BlockStop \in scenario.records
    /\ Scan(BlockStop, "anthropic")
    /\ emitted' = emitted \o FinalizeTool(currentTool, scenario.onToolCall)
    /\ currentTool' = NoTool
    /\ UNCHANGED <<scenario, status, chunks, currentToolCalls>>
    /\ UNCHANGED <<agentVars, limiterVars, providerVars,
                   chatVars, requestVars, managerVars, estimatorVars, tuiVars>>

\* anthropic.go:363-366, 376-387: message_stop finalizes and ends the loop.
AnthropicMessageStop ==
    /\ ScanLast(MessageStop, "anthropic")
    /\ emitted' = emitted \o FinalizeTool(currentTool, scenario.onToolCall)
    /\ currentTool' = NoTool
    /\ status' = "ok"
    /\ UNCHANGED <<scenario, chunks, currentToolCalls>>
    /\ UNCHANGED <<agentVars, limiterVars, providerVars,
                   chatVars, requestVars, managerVars, estimatorVars, tuiVars>>

\* anthropic.go:367-371: an error event returns at once.
AnthropicError ==
    /\ ScanLast(ErrorEvent, "anthropic")
    /\ status' = "error"
    /\ UNCHANGED <<scenario, chunks, emitted, currentTool, currentToolCalls>>
    /\ UNCHANGED <<agentVars, limiterVars, providerVars,
                   chatVars, requestVars, managerVars, estimatorVars, tuiVars>>

\* anthropic.go:244, 376-387: the body ends; nothing is finalized.
AnthropicEndOfInput ==
    /\ ScanLast(EndOfInput, "anthropic")
    /\ status' = "ok"
    /\ UNCHANGED <<scenario, chunks, emitted, currentTool, currentToolCalls>>
    /\ UNCHANGED <<agentVars, limiterVars, providerVars,
                   chatVars, requestVars, managerVars, estimatorVars, tuiVars>>

\* anthropic.go:195, 376-380: a line exceeds the scanner's 1 MiB buffer.
AnthropicLineTooLong ==
    /\ ScanLast(LineTooLong, "anthropic")
    /\ status' = "error"
    /\ UNCHANGED <<scenario, chunks, emitted, currentTool, currentToolCalls>>
    /\ UNCHANGED <<agentVars, limiterVars, providerVars,
                   chatVars, requestVars, managerVars, estimatorVars, tuiVars>>

AnthropicNext ==
    \/ AnthropicSkip
    \/ AnthropicDone
    \/ AnthropicContentBlockStart
    \/ AnthropicTextDelta
    \/ AnthropicInputJsonDelta
    \/ AnthropicLegacyToolUse
    \/ AnthropicContentBlockStop
    \/ AnthropicMessageStop
    \/ AnthropicError
    \/ AnthropicEndOfInput
    \/ AnthropicLineTooLong

(***************************************************************************)
(* OpenAIProvider.StreamChatWithTools: the SSE loop                        *)
(***************************************************************************)
Indices == {0, 1}

\* An entry of currentToolCalls; active = FALSE is the nil entry.  frags is
\* history: the argument fragments received for the index, in order.
CallBuffer(id, name, input, frags) ==
    [active |-> TRUE, id |-> id, name |-> name, input |-> input, frags |-> frags]

NoCall == [active |-> FALSE, id |-> "", name |-> "", input |-> InputMap({}, << >>),
           frags |-> << >>]

\* openai.go:229-234: the text stored under "_raw_args" after a fragment.
AccumulateArgs(input, fragment) == input.raw \o fragment

\* openai.go:234-241: the Input map after the fragment has been stored.
StoreArgs(input, fragment) ==
    LET existingArgs == AccumulateArgs(input, fragment)
    IN  IF ValidObject(existingArgs)
        THEN InputMap(ParseObject(existingArgs), << >>)
        ELSE InputMap(input.obj, existingArgs)

\* Mutant: the entry takes the id and the name of every element, empty or not.
ApplyDeltaOverwrite(buf, d) ==
    LET b1 == IF buf.active THEN buf
              ELSE CallBuffer(d.id, d.name, InputMap({}, << >>), << >>)
        b2 == [b1 EXCEPT !.name = d.name, !.id = d.id]
    IN  IF d.arguments # << >>
        THEN [b2 EXCEPT !.input = StoreArgs(@, d.arguments),
                        !.frags = Append(@, d.arguments)]
        ELSE b2

\* openai.go:211-242: one element of delta.tool_calls applied to its entry.
ApplyDelta(buf, d) ==
    LET b1 == IF buf.active THEN buf
              ELSE CallBuffer(d.id, d.name, InputMap({}, << >>), << >>)
        b2 == [b1 EXCEPT !.name = IF d.name # "" THEN d.name ELSE @,
                         !.id = IF d.id # "" /\ @ = "" THEN d.id ELSE @]
    IN  IF d.arguments # << >>
        THEN [b2 EXCEPT !.input = StoreArgs(@, d.arguments),
                        !.frags = Append(@, d.arguments)]
        ELSE b2

RECURSIVE ApplyDeltas(_, _)
\* openai.go:210-244: `for _, toolCallDelta := range delta.ToolCalls`
ApplyDeltas(calls, deltas) ==
    IF deltas = << >> THEN calls
    ELSE LET d == Head(deltas)
         IN  ApplyDeltas([calls EXCEPT ![d.index] = ApplyDelta(@, d)], Tail(deltas))

\* Mutant: an entry with an id is delivered, named or not.
CompleteIdOnly(id, name) == id # ""

\* openai.go:253: the entry is delivered.
Complete(id, name) == id # "" /\ name # ""

\* The orders in which `range currentToolCalls` may visit the entries.
VisitOrders(calls) ==
    LET present == { i \in Indices : calls[i].active }
    IN  { o \in [1..Cardinality(present) -> present] :
            \A i, j \in 1..Cardinality(present) : i # j => o[i] # o[j] }

RECURSIVE Remaining(_, _)
\* openai.go:251-257: the onToolCall invocations for the entries visited in
\* the given order.
Remaining(calls, order) ==
    IF order = << >> THEN << >>
    ELSE LET b == calls[Head(order)]
         IN  (IF Complete(b.id, b.name)
              THEN <<ToolCall(b.id, b.name, b.input, b.frags)>>
              ELSE << >>) \o Remaining(calls, Tail(order))

\* openai.go:184-198: a line the loop skips.
OpenAISkip ==
    /\ Scan(SkipLine, "openai")
    /\ UNCHANGED <<scenario, status, chunks, emitted, currentTool, currentToolCalls>>
    /\ UNCHANGED <<agentVars, limiterVars, providerVars,
                   chatVars, requestVars, managerVars, estimatorVars, tuiVars>>

\* openai.go:195-200: an error event decodes into a response without
\* choices, so the record is passed over.
OpenAIErrorEvent ==
    /\ Scan(ErrorEvent, "openai")
    /\ UNCHANGED <<scenario, status, chunks, emitted, currentTool, currentToolCalls>>
    /\ UNCHANGED <<agentVars, limiterVars, providerVars,
                   chatVars, requestVars, managerVars, estimatorVars, tuiVars>>

\* openai.go:200-246: a chunk with choices[0].delta.
OpenAIChunk ==
    /\ \E r \in scenario.records :
        /\ r.kind = "chunk"
        /\ Scan(r, "openai")
        /\ chunks' = EmitText(chunks, r.text)
        /\ currentToolCalls' =
              IF Len(r.toolCalls) > 0 /\ scenario.onToolCall
              THEN ApplyDeltas(currentToolCalls, r.toolCalls)
              ELSE currentToolCalls
    /\ UNCHANGED <<scenario, status, emitted, currentTool>>
    /\ UNCHANGED <<agentVars, limiterVars, providerVars,
                   chatVars, requestVars, managerVars, estimatorVars, tuiVars>>

\* openai.go:250-263: after the loop the remaining entries are delivered in
\* map order, then the scanner's error, if any, is returned.
OpenAIFinish(last) ==
    /\ ScanLast(last, "openai")
    /\ \E order \in VisitOrders(currentToolCalls) :
         emitted' = emitted \o (IF scenario.onToolCall
                                THEN Remaining(currentToolCalls, order)
                                ELSE << >>)
    /\ status' = IF last = LineTooLong THEN "error" ELSE "ok"
    /\ UNCHANGED <<scenario, chunks, currentTool, currentToolCalls>>
    /\ UNCHANGED <<agentVars, limiterVars, providerVars,
                   chatVars, requestVars, managerVars, estimatorVars, tuiVars>>

\* openai.go:191-193: data: [DONE]
OpenAIDone == OpenAIFinish(DoneLine)

\* openai.go:182: the body ends.
OpenAIEndOfInput == OpenAIFinish(EndOfInput)

\* openai.go:179, 259-261: a line exceeds the scanner's 1 MiB buffer.
OpenAILineTooLong == OpenAIFinish(LineTooLong)

OpenAINext ==
    \/ OpenAISkip
    \/ OpenAIErrorEvent
    \/ OpenAIChunk
    \/ OpenAIDone
    \/ OpenAIEndOfInput
    \/ OpenAILineTooLong

\* A streaming call that has got its 200 response and starts to scan it.
DecoderInit ==
    /\ scenario \in Scenarios
    /\ stream = << >>
    /\ status = "scanning"
    /\ chunks = << >>
    /\ emitted = << >>
    /\ currentTool = NoTool
    /\ currentToolCalls = [i \in Indices |-> NoCall]

\* No streaming call: the state the decoder's variables keep elsewhere.
DecoderIdle ==
    /\ scenario = Scenario("none", FALSE, {})
    /\ stream = << >>
    /\ status = "ok"
    /\ chunks = << >>
    /\ emitted = << >>
    /\ currentTool = NoTool
    /\ currentToolCalls = [i \in Indices |-> NoCall]

(***************************************************************************)
(* Provider.Chat: StreamChat with a callback that writes each chunk to a   *)
(* strings.Builder.  A chunk is one token of the text.                     *)
(***************************************************************************)
ChatResult(text, err) == [done |-> TRUE, text |-> text, err |-> err]

\* Chat has not returned.
NoChat == [done |-> FALSE, text |-> << >>, err |-> FALSE]

ChatIdle == chatRet = NoChat

\* Mutant: the builder keeps the chunks in reverse.
WriteStringInFront(b, chunk) == <<chunk>> \o b

\* fullResponse.WriteString(chunk)
WriteString(b, chunk) == b \o <<chunk>>

RECURSIVE WriteAll(_, _)
\* The callback of Chat run on the chunks StreamChat delivered, in order.
WriteAll(b, delivered) ==
    IF delivered = << >> THEN b
    ELSE WriteAll(WriteString(b, Head(delivered)), Tail(delivered))

\* anthropic.go:390-402, openai.go:266-278: StreamChat has returned (it
\* passes no onToolCall) and Chat returns.
ChatReturns ==
    /\ ~scenario.onToolCall
    /\ scenario.vendor \in {"anthropic", "openai"}
    /\ status # "scanning"
    /\ ~chatRet.done
    /\ chatRet' = IF status = "error"
                  THEN ChatResult(<< >>, TRUE)
                  ELSE ChatResult(WriteAll(<< >>, chunks), FALSE)
    /\ UNCHANGED <<agentVars, limiterVars, decoderVars, providerVars,
                   requestVars, managerVars, estimatorVars, tuiVars>>

DecoderNext == AnthropicNext \/ OpenAINext \/ ChatReturns

AgentNext ==
    \/ StreamTaskStart
    \/ StreamTaskRound
    \/ StreamTaskDispatch
    \/ StreamTaskExit
    \/ ExecuteTaskStart
    \/ ExecuteTaskRound
    \/ ExecuteTaskDispatch
    \/ ExecuteTaskExit

\* An idle agent: the state the agent's variables keep under SpecLimiter.
AgentIdle ==
    /\ variant = "none"
    /\ pc = "idle"
    /\ messages = << >>
    /\ iterations = 0
    /\ providerCalls = 0
    /\ toolCalls = << >>
    /\ toolResults = << >>
    /\ finalResponse = << >>
    /\ execLog = << >>
    /\ out = << >>
    /\ result = "none"
    /\ roundStart = << >>
    /\ roundReply = NoReply
    /\ roundExecStart = 0
    /\ nMulti = 0
    /\ nExecErr = 0

\* No request: the state the request's variables keep elsewhere.
NoBody == [sent |-> FALSE, system |-> << >>, messages |-> << >>]

NoResponse == [code |-> 0, body |-> << >>]

RequestIdle ==
    /\ pmessages = << >>
    /\ requestBody = NoBody
    /\ presponse = NoResponse
    /\ perror = << >>

\* History: one operation of the Manager.  op is "add", "prompt", "clear" or
\* "stream"; arg is its text argument and before the messages it found.  For
\* "stream": afterUser is the messages once the user turn was appended, sum
\* tells what became of the summarization ("none": not attempted, "ok",
\* "failed") and summary is the text m.provider.Chat returned, streamed is the
\* messages handed to the provider, reply is what the provider did and ret is
\* what StreamChatWithTools returned.
Op(op, arg, before, afterUser, sum, summary, streamed, reply, ret) ==
    [op |-> op, arg |-> arg, before |-> before, afterUser |-> afterUser,
     sum |-> sum, summary |-> summary, streamed |-> streamed, reply |-> reply,
     ret |-> ret]

\* No operation of the Manager yet.
NoOp == Op("none", << >>, << >>, << >>, "none", << >>, << >>, NoReply, "none")

ManagerIdle ==
    /\ lastOp = NoOp
    /\ summarized = FALSE
    /\ nManagerOps = 0

\* The two calls of EstimateTokens that are compared.
EstCalls == {"a", "b"}

EstimatorIdle ==
    /\ estArgs = [c \in EstCalls |-> << >>]
    /\ estValues = [c \in EstCalls |-> 0]
    /\ estDone = {}

(***************************************************************************)
(* One provider call seen from the wire: the messages it is given, the     *)
(* request it builds and the response it gets.  The limiter's part in the  *)
(* call is SpecProvider's; here Wait just returns.                         *)
(***************************************************************************)
\* The `messages` arguments explored.
RequestMessages ==
    { << >>,
      <<Msg("user", << >>)>>,
      <<Msg("user", <<" ">>)>>,
      <<Msg("user", <<"hi">>)>>,
      <<Msg("system", <<"sys">>)>>,
      <<Msg("system", <<"sys">>), Msg("user", << >>)>>,
      <<Msg("system", <<"sys">>), Msg("user", <<"hi">>)>>,
      <<Msg("user", <<"hi">>), Msg("assistant", << >>), Msg("user", <<"more">>)>>,
      <<Msg("user", << >>), Msg("assistant", << >>)>> }

\* The status codes and bodies a response may have.
StatusCodes == {200, 201, 204, 400, 429, 500}

Bodies == { << >>, <<"{\"error\":", "\"overloaded\"", "}">> }

Response(code, body) == [code |-> code, body |-> body]

RECURSIVE AnthropicMessages(_)
\* anthropic.go:101-127: system messages are taken out, messages whose
\* content is empty after TrimSpace are skipped, the others become one text
\* block each.
AnthropicMessages(ms) ==
    IF ms = << >> THEN << >>
    ELSE LET msg == Head(ms)
         IN  IF msg.role = "system" THEN AnthropicMessages(Tail(ms))
             ELSE IF TrimSpace(msg.content) = << >>
             THEN AnthropicMessages(Tail(ms))
             ELSE <<[role |-> msg.role,
                     content |-> <<[type |-> "text", text |-> msg.content]>>]>>
                  \o AnthropicMessages(Tail(ms))

RECURSIVE AnthropicSystem(_, _)
\* anthropic.go:102-108: systemPrompt is the content of the last system
\* message.
AnthropicSystem(ms, systemPrompt) ==
    IF ms = << >> THEN systemPrompt
    ELSE AnthropicSystem(Tail(ms), IF Head(ms).role = "system"
                                   THEN Head(ms).content ELSE systemPrompt)

\* openai.go:113-128: every message is copied, role and content.
OpenAIMessages(ms) ==
    [i \in 1..Len(ms) |-> [role |-> ms[i].role, content |-> ms[i].content]]

Body(system, msgs) == [sent |-> TRUE, system |-> system, messages |-> msgs]

\* anthropic.go:183, openai.go:172: `resp.StatusCode != http.StatusOK`
StatusOK(code) == code = 200

\* anthropic.go:188: "anthropic API error: HTTP %d - %s"
AnthropicStatusError(r) ==
    <<"anthropic API error: HTTP ", ToString(r.code), " - ">> \o r.body

\* openai.go:174: "openai API error: %d - %s"
OpenAIStatusError(r) ==
    <<"openai API error: ", ToString(r.code), " - ">> \o r.body

\* anthropic.go:92-95, openai.go:107-110: the call begins with the credential
\* check.
CallBegins ==
    /\ ppc = "idle"
    /\ nProviderCalls < MaxProviderCalls
    /\ nProviderCalls' = nProviderCalls + 1
    /\ \E ms \in RequestMessages : pmessages' = ms
    /\ requestBody' = NoBody
    /\ presponse' = NoResponse
    /\ callbacks' = FALSE
    /\ IF CredentialMissing(apiKeySet)
       THEN /\ ppc' = "returned"
            /\ pret' = "err_key"
            /\ perror' = <<pvendor, " API key not set">>
       ELSE /\ ppc' = IF pvendor = "anthropic" THEN "wait" ELSE "request"
            /\ pret' = "none"
            /\ perror' = << >>
    /\ UNCHANGED <<pvendor, apiKeySet, httpRequests, granted, headers>>
    /\ UNCHANGED <<agentVars, limiterVars, decoderVars, chatVars, managerVars,
                   estimatorVars, tuiVars>>

\* anthropic.go:96-98: limiter.Wait returns nil, or the context's error.
WaitOutcome ==
    /\ pvendor = "anthropic"
    /\ ppc = "wait"
    /\ \/ ppc' = "request" /\ UNCHANGED <<pret, perror>>
       \/ /\ ppc' = "returned"
          /\ pret' = "err_wait"
          /\ perror' = <<"rate limit wait: ", "context canceled">>
    /\ UNCHANGED <<pvendor, apiKeySet, httpRequests, callbacks, granted, headers,
                   nProviderCalls>>
    /\ UNCHANGED <<pmessages, requestBody, presponse>>
    /\ UNCHANGED <<agentVars, limiterVars, decoderVars, chatVars, managerVars,
                   estimatorVars, tuiVars>>

\* client.Do and the status check that follows it: the transport fails, or
\* a response r arrives.
SendRequest(body, vendor) ==
    /\ requestBody' = body
    /\ httpRequests' = httpRequests + 1
    /\ \/ /\ ppc' = "returned"
          /\ pret' = "err_http"
          /\ perror' = <<"HTTP request: ", "connection refused">>
          /\ UNCHANGED presponse
       \/ \E code \in StatusCodes, body_ \in Bodies :
            LET r == Response(code, body_)
            IN  /\ presponse' = r
                /\ IF StatusOK(r.code)
                   THEN /\ ppc' = "stream"
                        /\ UNCHANGED <<pret, perror>>
                   ELSE /\ ppc' = "returned"
                        /\ pret' = "err_status"
                        /\ perror' = IF vendor = "anthropic"
                                     THEN AnthropicStatusError(r)
                                     ELSE OpenAIStatusError(r)

\* anthropic.go:100-192: the messages are converted, the request is sent and
\* the response's status is checked.
AnthropicSend ==
    /\ pvendor = "anthropic"
    /\ ppc = "request"
    /\ LET anthropicMessages == AnthropicMessages(pmessages)
       IN  IF Len(anthropicMessages) = 0
           THEN /\ ppc' = "returned"
                /\ pret' = "err_nomsg"
                /\ perror' = <<"no valid messages to send">>
                /\ UNCHANGED <<requestBody, presponse, httpRequests>>
           ELSE SendRequest(Body(AnthropicSystem(pmessages, << >>),
                                 anthropicMessages),
                            "anthropic")
    /\ UNCHANGED <<pvendor, apiKeySet, callbacks, granted, headers,
                   nProviderCalls>>
    /\ UNCHANGED pmessages
    /\ UNCHANGED <<agentVars, limiterVars, decoderVars, chatVars, managerVars,
                   estimatorVars, tuiVars>>

\* openai.go:112-175: the same for the OpenAI provider, which has no system
\* field.
OpenAISend ==
    /\ pvendor = "openai"
    /\ ppc = "request"
    /\ SendRequest(Body(<< >>, OpenAIMessages(pmessages)), "openai")
    /\ UNCHANGED <<pvendor, apiKeySet, callbacks, granted, headers,
                   nProviderCalls>>
    /\ UNCHANGED pmessages
    /\ UNCHANGED <<agentVars, limiterVars, decoderVars, chatVars, managerVars,
                   estimatorVars, tuiVars>>

RequestNext ==
    \/ CallBegins
    \/ WaitOutcome
    \/ AnthropicSend
    \/ OpenAISend
    \/ ProviderStream
    \/ ProviderReturned

(***************************************************************************)
(* chat.Manager: its operations on `messages`, called one after another.   *)
(***************************************************************************)
summarizeThreshold == 30

\* NewManager: `maxMessages: 50`, a field no method reads.
maxMessages == 50

\* summarizeContext: `len(m.messages) < 10`
summarizeMinimum == 10

\* summarizeContext: the messages kept, `m.messages[len(m.messages)-5:]`
recentKept == 5

\* The agent's variables other than `messages`.
agentLocals == <<variant, pc, iterations, providerCalls, toolCalls, toolResults,
                 finalResponse, execLog, out, result, roundStart, roundReply,
                 roundExecStart, nMulti, nExecErr>>

\* A conversation of n turns, after a system prompt or not.
History(n, withPrompt) ==
    (IF withPrompt THEN <<Msg("system", SystemPrompt)>> ELSE << >>)
    \o [i \in 1..n |-> Msg(IF i % 2 = 1 THEN "user" ELSE "assistant",
                           <<"turn ", ToString(i)>>)]

\* The conversations a Manager may hold when the operations explored begin:
\* none, a short one, ones at the summarization threshold and one just
\* below maxMessages.
ManagerHistories ==
    { History(n, withPrompt) :
        n \in {0, 3, summarizeThreshold - 1, summarizeThreshold,
               maxMessages - 1},
        withPrompt \in BOOLEAN }

ManagerInit ==
    /\ messages \in ManagerHistories
    /\ variant = "none"
    /\ pc = "idle"
    /\ iterations = 0
    /\ providerCalls = 0
    /\ toolCalls = << >>
    /\ toolResults = << >>
    /\ finalResponse = << >>
    /\ execLog = << >>
    /\ out = << >>
    /\ result = "none"
    /\ roundStart = << >>
    /\ roundReply = NoReply
    /\ roundExecStart = 0
    /\ nMulti = 0
    /\ nExecErr = 0
    /\ lastOp = NoOp
    /\ summarized = FALSE
    /\ nManagerOps = 0

\* The arguments explored.
ManagerRoles == {"user", "assistant", "system"}

Prompts == { <<"prompt one">>, <<"prompt two">> }

UserInput == <<"question">>

\* A tool call with its input, a set of members (see ParseObject).
Call(id, name, input) == [id |-> id, name |-> name, input |-> input]

\* What the provider's StreamChatWithTools may do in a call of the Manager.
ManagerReplies ==
    { Reply(<< <<"Hello">>, <<" World">> >>, << >>, FALSE),
      Reply(<< <<"I'll help">> >>,
            <<Call("call_1", "execute_command", {"a", "b"})>>, FALSE),
      Reply(<< >>, <<Call("call_2", "read_file", {}),
                     Call("call_1", "execute_command", {"a"})>>, FALSE),
      Reply(<< <<"partial">> >>, << >>, TRUE) }

\* What m.provider.Chat may return for the summary request.
SummaryOutcomes ==
    { ChatResult(<<"summary">>, FALSE), ChatResult(<< >>, FALSE),
      ChatResult(<< >>, TRUE) }

\* part_004:30-36
ManagerAddMessage ==
    /\ nManagerOps < MaxManagerOps
    /\ nManagerOps' = nManagerOps + 1
    /\ \E role \in ManagerRoles :
         /\ messages' = AddMessage(messages, role, <<"note">>)
         /\ lastOp' = Op("add", <<"note">>, messages, << >>, "none", << >>,
                         << >>, NoReply, "none")
    /\ UNCHANGED <<agentLocals, summarized>>
    /\ UNCHANGED <<limiterVars, decoderVars, providerVars, chatVars, requestVars,
                   estimatorVars, tuiVars>>

\* part_004:150-165
ManagerSetSystemPrompt ==
    /\ nManagerOps < MaxManagerOps
    /\ nManagerOps' = nManagerOps + 1
    /\ \E prompt \in Prompts :
         /\ messages' = SetSystemPrompt(messages, prompt)
         /\ lastOp' = Op("prompt", prompt, messages, << >>, "none", << >>,
                         << >>, NoReply, "none")
    /\ UNCHANGED <<agentLocals, summarized>>
    /\ UNCHANGED <<limiterVars, decoderVars, providerVars, chatVars, requestVars,
                   estimatorVars, tuiVars>>

\* part_004:145-148
ManagerClear ==
    /\ nManagerOps < MaxManagerOps
    /\ nManagerOps' = nManagerOps + 1
    /\ messages' = << >>
    /\ summarized' = FALSE
    /\ lastOp' = Op("clear", << >>, messages, << >>, "none", << >>, << >>,
                    NoReply, "none")
    /\ UNCHANGED agentLocals
    /\ UNCHANGED <<limiterVars, decoderVars, providerVars, chatVars, requestVars,
                   estimatorVars, tuiVars>>

\* Mutant: one message fewer is kept.
RecentMessagesShort(ms) == SubSeq(ms, Len(ms) - recentKept + 2, Len(ms))

\* part_004:118: `m.messages[len(m.messages)-5:]`
RecentMessages(ms) == SubSeq(ms, Len(ms) - recentKept + 1, Len(ms))

\* part_004:111-143, once m.provider.Chat has returned `summary`.
SummarizeContext(ms, summary) ==
    IF Len(ms) < summarizeMinimum THEN ms
    ELSE <<Msg("system", <<"Previous conversation summary: ">> \o summary)>>
         \o RecentMessages(ms)

\* Mutant: the error of summarizeContext is returned.
SummaryErrorPropagates(failed) == failed

\* part_004:55-58: the error of summarizeContext is printed, not returned.
SummaryErrorReturned(failed) == FALSE

\* json.Marshal of the input map: the members in key order.
FormatToolInput(input) ==
    <<"{">> \o Join([i \in 1..Len(SelectSeq(<<"a", "b">>, LAMBDA k : k \in input)) |->
                       <<SelectSeq(<<"a", "b">>, LAMBDA k : k \in input)[i]>>],
                    <<",">>)
    \o <<"}">>

\* part_004:84
FunctionCallMarker(tc) ==
    <<"\n<function_call>{\"name\":\"", tc.name, "\",\"input\":">>
    \o FormatToolInput(tc.input) \o <<"}</function_call>">>

RECURSIVE Markers(_)
\* part_004:81-86: `for _, tc := range toolCalls`
Markers(calls) ==
    IF calls = << >> THEN << >>
    ELSE FunctionCallMarker(Head(calls)) \o Markers(Tail(calls))

\* Mutant: the markers come before the text.
ResponseTextMarkersFirst(r) == Markers(r.calls) \o Flatten(r.chunks)

\* part_004:80-86: responseText
ResponseText(r) == Flatten(r.chunks) \o Markers(r.calls)

\* part_004:61-89: the provider is streamed with `current` and does r.
Respond(userInput, afterUser, sum, summary, current, r) ==
    /\ messages' = IF CallFailed(r) THEN current
                   ELSE AddMessage(current, "assistant", ResponseText(r))
    /\ lastOp' = Op("stream", userInput, messages, afterUser, sum, summary,
                    current, r, IF CallFailed(r) THEN "err_stream" ELSE "ok")
    /\ summarized' = (summarized \/ sum = "ok")

\* part_004:49-90
ManagerStreamChatWithTools ==
    /\ nManagerOps < MaxManagerOps
    /\ nManagerOps' = nManagerOps + 1
    /\ \E r \in ManagerReplies :
         LET afterUser == AddMessage(messages, "user", UserInput)
         IN  IF Len(afterUser) > summarizeThreshold
             THEN \E s \in SummaryOutcomes :
                    IF s.err
                    THEN IF SummaryErrorReturned(s.err)
                         THEN /\ messages' = afterUser
                              /\ lastOp' = Op("stream", UserInput, messages,
                                              afterUser, "failed", << >>,
                                              << >>, NoReply, "err_summary")
                              /\ UNCHANGED summarized
                         ELSE Respond(UserInput, afterUser, "failed", << >>,
                                      afterUser, r)
                    ELSE Respond(UserInput, afterUser, "ok", s.text,
                                 SummarizeContext(afterUser, s.text), r)
             ELSE Respond(UserInput, afterUser, "none", << >>, afterUser, r)
    /\ UNCHANGED agentLocals
    /\ UNCHANGED <<limiterVars, decoderVars, providerVars, chatVars, requestVars,
                   estimatorVars, tuiVars>>

ManagerNext ==
    \/ ManagerAddMessage
    \/ ManagerSetSystemPrompt
    \/ ManagerClear
    \/ ManagerStreamChatWithTools

(***************************************************************************)
(* EstimateTokens.  Here a content is a sequence of characters: "a" is a   *)
(* one-byte character, "W" a three-byte one (a Hangul syllable).           *)
(***************************************************************************)
\* The bytes of the UTF-8 encoding of a character.
ByteWidth(ch) == IF ch = "W" THEN 3 ELSE 1

RECURSIVE ByteLen(_)
\* len(text)
ByteLen(text) ==
    IF text = << >> THEN 0 ELSE ByteWidth(Head(text)) + ByteLen(Tail(text))

\* utf8.RuneCountInString(text)
RuneCount(text) == Len(text)

\* int(math.Ceil(float64(bytes) / 3.0))
CeilThird(bytes) == (bytes + 2) \div 3

\* token_estimator.go:19-33
estimateTextTokens(text) ==
    IF text = << >> THEN 0
    ELSE LET bytes == ByteLen(text)
             runes == RuneCount(text)
             byBytes == CeilThird(bytes)
             estimate == IF byBytes < runes \div 2 THEN runes \div 2 ELSE byBytes
         IN  IF estimate < 1 THEN 1 ELSE estimate

RECURSIVE TotalTokens(_)
\* token_estimator.go:9-12: the loop over the messages
TotalTokens(ms) ==
    IF ms = << >> THEN 0
    ELSE estimateTextTokens(Head(ms).content) + 4 + TotalTokens(Tail(ms))

\* Mutant: no floor.
NoFloor(total) == total

\* token_estimator.go:13-16
FloorAtOne(total) == IF total < 1 THEN 1 ELSE total

\* token_estimator.go:8-17
EstimateTokens(ms) == FloorAtOne(TotalTokens(ms))

\* n one-byte characters.
Ascii(n) == [i \in 1..n |-> "a"]

\* The contents explored.
EstContents ==
    { << >>, Ascii(1), Ascii(3), Ascii(4), Ascii(10), <<"W">>,
      <<"W", "W", "W", "a", "a">> }

\* The message lists explored: up to MaxEstMessages messages.
EstMessageLists ==
    UNION { [1..n -> { Msg("user", c) : c \in EstContents }] : n \in 0..MaxEstMessages }

\* Two calls are about to be made, each on one message list.
EstimatorInit ==
    /\ estArgs \in [EstCalls -> EstMessageLists]
    /\ estValues = [c \in EstCalls |-> 0]
    /\ estDone = {}

\* One call of EstimateTokens returns.
Estimate(c) ==
    /\ c \notin estDone
    /\ estValues' = [estValues EXCEPT ![c] = EstimateTokens(estArgs[c])]
    /\ estDone' = estDone \cup {c}
    /\ UNCHANGED estArgs
    /\ UNCHANGED <<agentVars, limiterVars, decoderVars, providerVars, chatVars,
                   requestVars, managerVars, tuiVars>>

EstimatorNext == \E c \in EstCalls : Estimate(c)

(***************************************************************************)
(* The TUI (cmd/storage-doctor): the Bubble Tea model's Update, and the    *)
(* goroutine that startStream starts to run Agent.StreamTask.  The         *)
(* goroutine talks to Update over streamCh; an approval request carries a  *)
(* response channel of its own.  Of StreamTask only the executor callback  *)
(* is modelled, and of the model's fields those that the approval protocol *)
(* reads (the displayed messages and the chunk events that feed them are   *)
(* left out).                                                              *)
(***************************************************************************)
\* tui_stream.go:13: make(chan streamEvent, 32)
streamChCap == 32

\* A channel: the values buffered in it and whether it was closed.
Chan(buf, closed) == [buf |-> buf, closed |-> closed]

NewChan == Chan(<< >>, FALSE)

\* The fields of a command line that are options (strings.HasPrefix(f, "-")).
Options == {"-l"}

\* The tool calls the model hands to the executor callback: name and, for
\* execute_command, the fields of Input["command"].
TuiCall(name, command) == [name |-> name, command |-> command]

TuiToolCalls ==
    { TuiCall("execute_command", <<"ls", "-l">>),
      TuiCall("execute_command", <<"ls">>),
      TuiCall("write_file", << >>),
      TuiCall("read_file", << >>) }

NoTuiCall == TuiCall("", << >>)

\* tui_approval.go:11-18
needsApproval(toolCall, isManual) ==
    IF toolCall.name \in {"execute_command", "write_file"}
    THEN isManual
    ELSE FALSE

\* tui_approval.go:20-25
approvalOptionsCount(toolCall) ==
    IF toolCall.name = "execute_command" THEN 3 ELSE 2

\* tui_approval.go:47-63: the fields before the first option, or the first
\* field when the line begins with an option; << >> for an empty line.
RECURSIVE LeadingParts(_)
LeadingParts(fields) ==
    IF fields = << >> \/ Head(fields) \in Options
    THEN << >>
    ELSE <<Head(fields)>> \o LeadingParts(Tail(fields))

commandKey(fields) ==
    IF fields = << >> THEN << >>
    ELSE IF LeadingParts(fields) = << >> THEN <<Head(fields)>>
    ELSE LeadingParts(fields)

\* tui_approval.go:42-45
commandKeyFromTool(toolCall) == commandKey(toolCall.command)

\* tui_approval.go:27-33
isAutoApproved(auto, toolCall) ==
    IF toolCall.name # "execute_command"
    THEN FALSE
    ELSE commandKeyFromTool(toolCall) # << >>
         /\ commandKeyFromTool(toolCall) \in auto

\* The events sent over streamCh (tui_model.go:12-18).
SysEvent(toolCall) == [kind |-> "sys", request |-> 0, toolCall |-> toolCall]
ApprovalEvent(n, toolCall) ==
    [kind |-> "approval", request |-> n, toolCall |-> toolCall]
DoneEvent == [kind |-> "done", request |-> 0, toolCall |-> NoTuiCall]

\* tuiModel.approval: nil, or the request of an event (its number stands for
\* its response channel).
NoRequest == [request |-> 0, toolCall |-> NoTuiCall]

\* The goroutine of startStream.  pc is "none" (not started, or returned),
\* "run" (inside StreamTask, outside the callbacks), "await" (blocked on
\* <-resp) or "exec" (past the approval, before the tool is run).
Goroutine(gpc, toolCall, request, isApproved) ==
    [pc |-> gpc, toolCall |-> toolCall, request |-> request,
     approved |-> isApproved]

NoGoroutine == Goroutine("none", NoTuiCall, 0, TRUE)

\* The keys of a tea.KeyMsg, one for each case of handleApprovalKey: "left"
\* and "right" stand for their cases' lists, "x" for any other rune and
\* "backspace" for any other key that is not a rune.
Keys == {"y", "n", "esc", "a", "left", "right", "enter", "x", "backspace"}

RuneKeys == {"y", "n", "a", "x"}

TuiIdle ==
    /\ streaming = FALSE
    /\ streamCh = NewChan
    /\ listening = FALSE
    /\ approval = NoRequest
    /\ approveIdx = 0
    /\ approveMax = 0
    /\ autoApprove = {}
    /\ respCh = << >>
    /\ goroutine = NoGoroutine
    /\ quit = FALSE
    /\ manualApproval = FALSE
    /\ requestLog = << >>
    /\ executedLog = << >>
    /\ returnLog = << >>
    /\ nTuiCalls = 0

\* tui_model.go:51-76: newTUIModel, with the configuration it runs under.
newTUIModel ==
    /\ streaming = FALSE
    /\ streamCh = NewChan
    /\ listening = FALSE
    /\ approval = NoRequest
    /\ approveIdx = 0
    /\ approveMax = 0
    /\ autoApprove = {}
    /\ respCh = << >>
    /\ goroutine = NoGoroutine
    /\ quit = FALSE
    /\ manualApproval \in BOOLEAN
    /\ requestLog = << >>
    /\ executedLog = << >>
    /\ returnLog = << >>
    /\ nTuiCalls = 0

\* m.streamCh <- ev: the send goes through when the buffer has room.
CanSend == Len(streamCh.buf) < streamChCap

Send(ev) == Chan(Append(streamCh.buf, ev), streamCh.closed)

\* tui_update.go:24-36: Enter with a non-empty input while no stream runs:
\* startStream makes the channel and starts the goroutine.
Submit ==
    /\ ~quit
    /\ approval = NoRequest
    /\ ~streaming
    /\ streaming' = TRUE
    /\ streamCh' = NewChan
    /\ listening' = TRUE
    /\ goroutine' = Goroutine("run", NoTuiCall, 0, TRUE)
    /\ UNCHANGED <<approval, approveIdx, approveMax, autoApprove, respCh, quit,
                   manualApproval, requestLog, executedLog, returnLog,
                   nTuiCalls>>
    /\ UNCHANGED <<agentVars, limiterVars, decoderVars, providerVars, chatVars,
                   requestVars, managerVars, estimatorVars>>

\* tui_stream.go:17-23: StreamTask invokes the executor callback; a tool call
\* that needs approval sends a request with a new response channel.
GoroutineToolCall ==
    /\ goroutine.pc = "run"
    /\ nTuiCalls < MaxTuiCalls
    /\ nTuiCalls' = nTuiCalls + 1
    /\ \E toolCall \in TuiToolCalls :
         IF needsApproval(toolCall, manualApproval)
         THEN /\ CanSend
              /\ respCh' = Append(respCh, NewChan)
              /\ requestLog' = Append(requestLog,
                     [toolCall |-> toolCall, sent |-> << >>, by |-> "none",
                      received |-> FALSE])
              /\ streamCh' = Send(ApprovalEvent(Len(respCh) + 1, toolCall))
              /\ goroutine' = Goroutine("await", toolCall, Len(respCh) + 1, TRUE)
         ELSE /\ goroutine' = Goroutine("exec", toolCall, 0, TRUE)
              /\ UNCHANGED <<respCh, requestLog, streamCh>>
    /\ UNCHANGED <<streaming, listening, approval, approveIdx, approveMax,
                   autoApprove, quit, manualApproval, executedLog, returnLog>>
    /\ UNCHANGED <<agentVars, limiterVars, decoderVars, providerVars, chatVars,
                   requestVars, managerVars, estimatorVars>>

\* tui_stream.go:24: `if !approved`
Cancel(isApproved) == ~isApproved

\* tui_stream.go:22-26: approved = <-resp (a closed, empty channel yields
\* false); on false the callback returns the error.
GoroutineReceive ==
    /\ goroutine.pc = "await"
    /\ LET n == goroutine.request
           ch == respCh[n]
       IN  /\ ch.buf # << >> \/ ch.closed
           /\ LET v == IF ch.buf # << >> THEN Head(ch.buf) ELSE FALSE
                  rest == IF ch.buf # << >> THEN Tail(ch.buf) ELSE << >>
              IN  /\ respCh' = [respCh EXCEPT ![n] = Chan(rest, ch.closed)]
                  /\ requestLog' = [requestLog EXCEPT ![n].received = TRUE]
                  /\ IF Cancel(v)
                     THEN /\ goroutine' = Goroutine("run", NoTuiCall, 0, TRUE)
                          /\ returnLog' = Append(returnLog,
                                 [toolCall |-> goroutine.toolCall,
                                  request |-> n, err |-> "cancelled"])
                     ELSE /\ goroutine' = [goroutine EXCEPT !.pc = "exec",
                                                            !.approved = v]
                          /\ UNCHANGED returnLog
    /\ UNCHANGED <<streaming, streamCh, listening, approval, approveIdx,
                   approveMax, autoApprove, quit, manualApproval, executedLog,
                   nTuiCalls>>
    /\ UNCHANGED <<agentVars, limiterVars, decoderVars, providerVars, chatVars,
                   requestVars, managerVars, estimatorVars>>

\* tui_stream.go:27-36: the tool is run, its outcome is sent for display and
\* returned to StreamTask.
GoroutineExecute ==
    /\ goroutine.pc = "exec"
    /\ CanSend
    /\ \E err \in {"nil", "failed"} :
         returnLog' = Append(returnLog,
             [toolCall |-> goroutine.toolCall, request |-> goroutine.request,
              err |-> err])
    /\ executedLog' = Append(executedLog,
           [toolCall |-> goroutine.toolCall, request |-> goroutine.request])
    /\ streamCh' = Send(SysEvent(goroutine.toolCall))
    /\ goroutine' = Goroutine("run", NoTuiCall, 0, TRUE)
    /\ UNCHANGED <<streaming, listening, approval, approveIdx, approveMax,
                   autoApprove, respCh, quit, manualApproval, requestLog,
                   nTuiCalls>>
    /\ UNCHANGED <<agentVars, limiterVars, decoderVars, providerVars, chatVars,
                   requestVars, managerVars, estimatorVars>>

\* tui_stream.go:38-39: StreamTask has returned; the done event is sent and
\* the channel closed.
GoroutineDone ==
    /\ goroutine.pc = "run"
    /\ CanSend
    /\ streamCh' = Chan(Append(streamCh.buf, DoneEvent), TRUE)
    /\ goroutine' = NoGoroutine
    /\ UNCHANGED <<streaming, listening, approval, approveIdx, approveMax,
                   autoApprove, respCh, quit, manualApproval, requestLog,
                   executedLog, returnLog, nTuiCalls>>
    /\ UNCHANGED <<agentVars, limiterVars, decoderVars, providerVars, chatVars,
                   requestVars, managerVars, estimatorVars>>

\* Mutant: the decision is sent twice.
DecideTwice(ch, v) == Chan(ch.buf \o <<v, v>>, TRUE)

\* tui_update.go:56-57 (and 62-63, 74-75, 94-95, 108-109, 147-148): the
\* decision is sent on the request's response channel, which is then closed.
Decide(ch, v) == Chan(Append(ch.buf, v), TRUE)

\* History: the values that Decide put into the channel are entered in the log.
Decided(log, n, before, after, by) ==
    [log EXCEPT ![n].sent = @ \o SubSeq(after.buf, Len(before.buf) + 1,
                                        Len(after.buf)),
                ![n].by = by]

\* tui_update.go:126-164: Update gets the event that waitForStream read.
HandleStreamEvent ==
    /\ ~quit
    /\ listening
    /\ streamCh.buf # << >> \/ streamCh.closed
    /\ LET ev == IF streamCh.buf # << >> THEN Head(streamCh.buf) ELSE DoneEvent
           n == ev.request
       IN  /\ streamCh' = Chan(IF streamCh.buf # << >> THEN Tail(streamCh.buf)
                                                      ELSE << >>,
                               streamCh.closed)
           /\ IF ev.kind = "done"
              THEN /\ streaming' = FALSE
                   /\ listening' = FALSE
                   /\ UNCHANGED <<approval, approveIdx, approveMax, respCh,
                                  requestLog>>
              ELSE /\ listening' = TRUE
                   /\ UNCHANGED streaming
                   /\ IF ev.kind = "approval"
                      THEN IF isAutoApproved(autoApprove, ev.toolCall)
                           THEN /\ respCh' = [respCh EXCEPT ![n] = Decide(@, TRUE)]
                                /\ requestLog' = Decided(requestLog, n, respCh[n],
                                                         respCh'[n], "auto")
                                /\ UNCHANGED <<approval, approveIdx, approveMax>>
                           ELSE /\ approval' = [request |-> n,
                                                toolCall |-> ev.toolCall]
                                /\ approveIdx' = 0
                                /\ approveMax' = approvalOptionsCount(ev.toolCall)
                                /\ UNCHANGED <<respCh, requestLog>>
                      ELSE UNCHANGED <<approval, approveIdx, approveMax, respCh,
                                       requestLog>>
    /\ UNCHANGED <<autoApprove, goroutine, quit, manualApproval, executedLog,
                   returnLog, nTuiCalls>>
    /\ UNCHANGED <<agentVars, limiterVars, decoderVars, providerVars, chatVars,
                   requestVars, managerVars, estimatorVars>>

\* What a key does to the pending request (tui_update.go:54-122): "approve",
\* "cancel", "auto" (approve and remember the command's key), "left", "right"
\* or "none".
KeyEffect(k, idx, max) ==
    CASE k = "y" -> "approve"
      [] k \in {"n", "esc"} -> "cancel"
      [] k = "a" -> IF max = 3 THEN "auto" ELSE "none"
      [] k = "left" -> IF max > 0 THEN "left" ELSE "none"
      [] k = "right" -> IF max > 0 THEN "right" ELSE "none"
      [] k = "enter" -> IF max > 0
                        THEN IF idx = 1 THEN "cancel"
                             ELSE IF max = 3 /\ idx = 2 THEN "auto"
                             ELSE "approve"
                        ELSE "none"
      [] OTHER -> IF k \in RuneKeys THEN "cancel" ELSE "none"

\* tui_update.go:21-22, 53-124: a key arrives while a request is pending.
HandleApprovalKey(k) ==
    /\ ~quit
    /\ approval # NoRequest
    /\ LET effect == KeyEffect(k, approveIdx, approveMax)
           n == approval.request
       IN  /\ effect # "none"
           /\ IF effect \in {"approve", "cancel", "auto"}
              THEN /\ respCh' = [respCh EXCEPT ![n] = Decide(@, effect # "cancel")]
                   /\ requestLog' = Decided(requestLog, n, respCh[n], respCh'[n],
                                            "user")
                   /\ approval' = NoRequest
                   /\ approveMax' = 0
                   /\ autoApprove' =
                        IF effect = "auto"
                        THEN autoApprove \cup {commandKeyFromTool(approval.toolCall)}
                        ELSE autoApprove
                   /\ UNCHANGED approveIdx
              ELSE /\ approveIdx' =
                        IF effect = "left"
                        THEN (approveIdx + approveMax - 1) % approveMax
                        ELSE (approveIdx + 1) % approveMax
                   /\ UNCHANGED <<respCh, requestLog, approval, approveMax,
                                  autoApprove>>
    /\ UNCHANGED <<streaming, streamCh, listening, goroutine, quit,
                   manualApproval, executedLog, returnLog, nTuiCalls>>
    /\ UNCHANGED <<agentVars, limiterVars, decoderVars, providerVars, chatVars,
                   requestVars, managerVars, estimatorVars>>

\* The user answers the prompt with y or n.
UserDecides == HandleApprovalKey("y") \/ HandleApprovalKey("n")

\* tui_update.go:18-20: Ctrl+C ends the program, and with it the goroutine.
Quit ==
    /\ ~quit
    /\ quit' = TRUE
    /\ UNCHANGED <<streaming, streamCh, listening, approval, approveIdx,
                   approveMax, autoApprove, respCh, goroutine, manualApproval,
                   requestLog, executedLog, returnLog, nTuiCalls>>
    /\ UNCHANGED <<agentVars, limiterVars, decoderVars, providerVars, chatVars,
                   requestVars, managerVars, estimatorVars>>

\* The goroutine runs while the program does.
GoroutineNext ==
    /\ ~quit
    /\ \/ GoroutineToolCall
       \/ GoroutineReceive
       \/ GoroutineExecute
       \/ GoroutineDone

TuiNext ==
    \/ Submit
    \/ GoroutineNext
    \/ HandleStreamEvent
    \/ \E k \in Keys : HandleApprovalKey(k)
    \/ Quit

\* Bubble Tea runs the waitForStream command and hands its event to Update,
\* the scheduler runs the goroutine, and the user answers a prompt.
TuiFairness ==
    /\ WF_vars(HandleStreamEvent)
    /\ WF_vars(GoroutineNext)
    /\ WF_vars(UserDecides)

\* Nothing but the agent, the limiter, the decoder and the provider.
OthersIdle == TuiIdle /\ ChatIdle /\ RequestIdle /\ ManagerIdle /\ EstimatorIdle

\* The agent loop over an abstract provider.
Init == AgentInit /\ LimiterIdle /\ DecoderIdle /\ ProviderIdle /\ OthersIdle

Next == AgentNext

Spec == Init /\ [][Next]_vars

\* One rate limiter shared by concurrent callers of Wait.
InitLimiter ==
    AgentIdle /\ NewRateLimiter /\ DecoderIdle /\ ProviderIdle /\ OthersIdle

SpecLimiter == InitLimiter /\ [][LimiterNext]_vars

\* The same limiter with fixed limits and a fair scheduler.
SpecLimiterFixed ==
    InitLimiter /\ [][LimiterFixedNext]_vars /\ LimiterFairness

\* The same limiter with fixed limits and a log of its admissions.
SpecLimiterLogged == InitLimiter /\ [][LimiterLoggedNext]_vars

\* The same limiter with fixed limits and callers that pass a reporter.
InitLimiterObserved ==
    /\ AgentIdle /\ DecoderIdle /\ ProviderIdle /\ OthersIdle
    /\ NewRateLimiterWith(TightMaxTokens)

SpecLimiterObserved == InitLimiterObserved /\ [][LimiterObservedNext]_vars

\* One provider serving calls one after another.
InitProvider ==
    AgentIdle /\ NewRateLimiter /\ DecoderIdle /\ ProviderInit /\ OthersIdle

SpecProvider == InitProvider /\ [][ProviderNext]_vars

\* One provider's calls, from the messages to the response's status.
InitRequest ==
    /\ AgentIdle /\ LimiterIdle /\ DecoderIdle /\ ProviderInit
    /\ TuiIdle /\ ChatIdle /\ RequestIdle /\ ManagerIdle /\ EstimatorIdle

SpecRequest == InitRequest /\ [][RequestNext]_vars

\* One Manager and the operations made on it.
InitManager ==
    /\ ManagerInit /\ LimiterIdle /\ DecoderIdle /\ ProviderIdle
    /\ TuiIdle /\ ChatIdle /\ RequestIdle /\ EstimatorIdle

SpecManager == InitManager /\ [][ManagerNext]_vars

\* Two calls of EstimateTokens.
InitEstimator ==
    /\ AgentIdle /\ LimiterIdle /\ DecoderIdle /\ ProviderIdle
    /\ TuiIdle /\ ChatIdle /\ RequestIdle /\ ManagerIdle /\ EstimatorInit

SpecEstimator == InitEstimator /\ [][EstimatorNext]_vars

\* The TUI with one stream at a time, under a fair scheduler and a user who
\* answers.
InitTUI ==
    /\ AgentIdle /\ LimiterIdle /\ DecoderIdle /\ ProviderIdle
    /\ newTUIModel /\ ChatIdle /\ RequestIdle /\ ManagerIdle /\ EstimatorIdle

SpecTUI == InitTUI /\ [][TuiNext]_vars /\ TuiFairness

\* One streaming call of either provider over a response body.
InitDecoder ==
    /\ AgentIdle /\ LimiterIdle /\ DecoderInit /\ ProviderIdle
    /\ TuiIdle /\ ChatIdle /\ RequestIdle /\ ManagerIdle /\ EstimatorIdle

SpecDecoder == InitDecoder /\ [][DecoderNext]_vars

(***************************************************************************)
(* Claims about the agent loop, checked under Spec.                        *)
(***************************************************************************)

\* The rounds of a task that is between rounds or over: did the last round
\* request tool calls, and did its dispatch complete.
RoundHadCalls == ~roundReply.err /\ Len(roundReply.calls) >= 1

\* The onToolCall invocations of the current round.
RoundExecs == SubSeq(execLog, roundExecStart + 1, Len(execLog))

\* C1: StreamTask and ExecuteTask make at most maxIterations provider calls,
\* and once the maxIterations-th round is over the only step left is the
\* return: there is no (maxIterations+1)-th round, even when every reply
\* requested tool calls and every executor callback succeeded.
C1_BoundedLoop ==
    [][ /\ providerCalls' <= maxIterations
        /\ (pc = "loop" /\ providerCalls = maxIterations)
              => (pc' = "done" /\ providerCalls' = providerCalls) ]_vars

\* All maxIterations rounds requested tool calls, every callback succeeded,
\* and the task has returned.
C1_Witness ==
    /\ pc = "done"
    /\ providerCalls = maxIterations
    /\ RoundHadCalls
    /\ Len(execLog) >= maxIterations
    /\ \A i \in 1..Len(execLog) : execLog[i].outcome.ok

\* C8: in a round whose reply carries k >= 1 tool calls the executor is
\* invoked once per call, in the order the calls were emitted; a failed
\* callback stops neither the remaining calls nor the loop; and when the
\* dispatch is over exactly one user turn has been appended, holding the k
\* result records joined in call order, each tagged with its tool's name and
\* the success/failure flag of its outcome.
C8_ToolDispatch ==
    (pc \in {"dispatch", "loop"} /\ RoundHadCalls) =>
        LET k == Len(roundReply.calls)
            n == Len(RoundExecs)
            expected == [i \in 1..n |->
                           FormatToolCall(roundReply.calls[i].name,
                               IF RoundExecs[i].outcome.ok
                               THEN RoundExecs[i].outcome.text
                               ELSE <<"error: ">> \o RoundExecs[i].outcome.text,
                               RoundExecs[i].outcome.ok)]
        IN  /\ result = "none"
            /\ n <= k
            /\ \A i \in 1..n : RoundExecs[i].call = roundReply.calls[i]
            /\ pc = "dispatch" => (n < k /\ messages = roundStart)
            /\ pc = "loop" =>
                 /\ n = k
                 /\ messages = Append(roundStart,
                                      Msg("user", Join(expected, <<"\n\n">>)))

\* A two-call round whose first callback failed has run its second call and
\* is back at the head of the loop.
C8_Witness ==
    /\ pc = "loop"
    /\ RoundHadCalls
    /\ Len(RoundExecs) = 2
    /\ ~RoundExecs[1].outcome.ok
    /\ RoundExecs[2].outcome.ok

\* C9 (as claimed): in both variants a round with zero tool calls and a
\* non-empty text appends exactly one assistant turn, holding that round's
\* text, as the last message, and the task ends successfully.
C9_FinalTurn ==
    (pc = "done" /\ ~roundReply.err /\ Len(roundReply.calls) = 0
       /\ Flatten(roundReply.chunks) # << >>) =>
        /\ result = "ok"
        /\ messages = Append(roundStart,
                             Msg("assistant", Flatten(roundReply.chunks)))

\* C10 (as claimed): in both variants a reply with empty text and zero tool
\* calls ends the task with the EmptyResponse error and appends nothing.
C10_EmptyResponse ==
    (pc = "done" /\ ~roundReply.err /\ Len(roundReply.calls) = 0
       /\ Flatten(roundReply.chunks) = << >> /\ providerCalls >= 1) =>
        /\ result = "err_empty"
        /\ messages = roundStart

\* C11: when StreamTask has returned after a round that requested tool calls,
\* it returned nil, it made exactly maxIterations provider calls, and the last
\* message is the user turn holding that round's tool results: no assistant
\* turn follows it. After a normal completion (the last round requested no
\* tool call) the last message is an assistant turn.
C11_ExhaustionVisible ==
    (variant = "stream" /\ pc = "done") =>
        /\ RoundHadCalls =>
              /\ result = "ok"
              /\ providerCalls = maxIterations
              /\ Len(toolResults) = Len(roundReply.calls)
              /\ messages = Append(roundStart,
                                   Msg("user", ToolResultsText(toolResults)))
        /\ (result = "ok" /\ ~RoundHadCalls) =>
              /\ messages # << >>
              /\ messages[Len(messages)].role = "assistant"

\* StreamTask has returned after maxIterations rounds of tool calls.
C11_Witness ==
    /\ variant = "stream"
    /\ pc = "done"
    /\ result = "ok"
    /\ RoundHadCalls
    /\ providerCalls = maxIterations
    /\ Len(execLog) >= maxIterations

\* C12: when a provider call fails, in either variant and in any iteration,
\* the task returns that error at once: the messages are those passed to the
\* failing call and the executor callback has not run since, even for tool
\* calls the provider had emitted before it failed.
C12_ProviderErrorFrame ==
    roundReply.err =>
        /\ pc = "done"
        /\ result = "err_llm"
        /\ messages = roundStart
        /\ Len(execLog) = roundExecStart
        /\ toolResults = << >>

\* The provider failed in a later iteration, after it had emitted a tool call
\* and after earlier rounds had run the executor.
C12_Witness ==
    /\ roundReply.err
    /\ Len(roundReply.calls) >= 1
    /\ providerCalls >= 2
    /\ Len(execLog) >= 1
    /\ pc = "done"

(***************************************************************************)
(* Claims about the rate limiter, checked under SpecLimiter.               *)
(***************************************************************************)

\* C2: under any interleaving of concurrent Wait/reserve calls, used-tokens
\* and used-requests equal the sum and the count of the reservations
\* committed since the last window reset (no lost update), and while the
\* limits have not been changed since that reset those reservations total at
\* most max-tokens tokens (max-tokens > 0) and at most max-requests requests
\* (max-requests > 0).
C2_NoOverAdmission ==
    /\ usedTokens = Sum(admitted)
    /\ usedRequests = Len(admitted)
    /\ limitsFixed =>
         /\ maxTokens > 0 => Sum(admitted) <= maxTokens
         /\ maxRequests > 0 => Len(admitted) <= maxRequests

\* Two goroutines are inside Wait at once: one holds a committed reservation
\* that fills the window, the other was refused and sleeps.
C2_Witness ==
    /\ limitsFixed
    /\ maxTokens > 0
    /\ Sum(admitted) = maxTokens
    /\ \E c, d \in Callers :
         /\ callers[c].pc = "done" /\ callers[c].ret = "ok" /\ callers[c].tokens > 0
         /\ callers[d].pc = "sleep" /\ callers[d].tokens > 0

\* The Wait call of goroutine c is within the limits it can ever be served
\* under: its tokens fit max-tokens, or that limit is disabled.
Servable(c) == maxTokens <= 0 \/ callers[c].tokens <= maxTokens

\* Goroutine c is inside Wait.
InWait(c) == callers[c].pc \in {"reserve", "sleep"}

\* C13 (checked under SpecLimiterFixed): a Wait call whose tokens fit the
\* limit returns; it returns success unless its context was cancelled; and a
\* call that returned success has committed exactly one reservation, of its
\* tokens.
C13_WaitAdmitted ==
    /\ \A c \in Callers :
          (InWait(c) /\ Servable(c)) ~>
              (callers[c].pc = "done" /\ callers[c].ret \in {"ok", "cancelled"})
    /\ [](\A c \in Callers :
            (callers[c].ret = "ok" /\ Servable(c)) =>
                callers[c].reserved = <<callers[c].tokens>>)

\* A call was refused, slept, and was admitted after its timer fired.
C13_Witness ==
    \E c \in Callers :
        /\ callers[c].pc = "done"
        /\ callers[c].ret = "ok"
        /\ callers[c].wake > 0
        /\ callers[c].tokens > 0
        /\ callers[c].reserved = <<callers[c].tokens>>

ReserveReturns(c) == callers[c].pc = "reserve" /\ callers'[c].pc # "reserve"

\* The reserve call of goroutine c that returns in this step has committed.
Committed(c) == callers'[c].reserved # callers[c].reserved

\* C15 (as claimed): a reserve call that commits nothing returns a wait that
\* is strictly positive and at most the window, and one that commits returns
\* zero, whatever window the limiter was constructed with.
C15_RefusalWaits ==
    [][ \A c \in Callers :
          ReserveReturns(c) =>
              IF Committed(c)
              THEN callers'[c].pc = "done" /\ callers'[c].wait = 0
              ELSE /\ callers'[c].pc = "sleep"
                   /\ callers'[c].wait > 0
                   /\ callers'[c].wait <= window ]_vars

\* The reservations of the current window that stood before goroutine c's
\* reserve call, which returns in this step.
PriorAdmitted(c) ==
    IF Committed(c) THEN SubSeq(admitted', 1, Len(admitted') - 1) ELSE admitted'

\* C16 (as claimed): a reserve call that keeps the window's cumulative tokens
\* at or below max-tokens returns no positive wait.
C16_TokensWithinCap ==
    [][ \A c \in Callers :
          (ReserveReturns(c)
             /\ maxTokens > 0
             /\ Sum(PriorAdmitted(c)) + callers[c].tokens <= maxTokens) =>
              callers'[c].wait = 0 ]_vars

\* C16 (amended): a reserve call that keeps the window's cumulative tokens at
\* or below max-tokens (or meets that limit disabled) and the window's number
\* of requests at or below max-requests (or meets that limit disabled) is
\* admitted: it commits and returns a zero wait.
C16_WithinBothCaps ==
    [][ \A c \in Callers :
          (ReserveReturns(c)
             /\ (maxTokens <= 0
                   \/ Sum(PriorAdmitted(c)) + callers[c].tokens <= maxTokens)
             /\ (maxRequests <= 0
                   \/ Len(PriorAdmitted(c)) + 1 <= maxRequests)) =>
              /\ Committed(c)
              /\ callers'[c].pc = "done"
              /\ callers'[c].wait = 0 ]_vars

\* The second reservation of a window was admitted and fills both caps.
C16_Witness ==
    /\ maxTokens > 0
    /\ maxRequests > 0
    /\ Len(admitted) = maxRequests
    /\ Len(admitted) >= 2
    /\ Sum(admitted) = maxTokens
    /\ \E c \in Callers :
         /\ callers[c].pc = "done"
         /\ callers[c].ret = "ok"
         /\ callers[c].tokens > 0

RECURSIVE TokensFrom(_, _, _)
\* The tokens of the logged admissions made at times t with from <= t < to.
TokensFrom(log, from, to) ==
    IF log = << >> THEN 0
    ELSE (IF from <= Head(log).t /\ Head(log).t < to THEN Head(log).tokens ELSE 0)
         + TokensFrom(Tail(log), from, to)

RECURSIVE RequestsFrom(_, _, _)
\* The number of logged admissions made at times t with from <= t < to.
RequestsFrom(log, from, to) ==
    IF log = << >> THEN 0
    ELSE (IF from <= Head(log).t /\ Head(log).t < to THEN 1 ELSE 0)
         + RequestsFrom(Tail(log), from, to)

\* C17 (as claimed, checked under SpecLimiterLogged where the limits are
\* fixed): with positive limits and a positive window, the admissions made in
\* any interval of the window's length total at most max-tokens tokens and
\* max-requests requests.
C17_SlidingWindow ==
    window > 0 =>
        \A from \in 0..now :
            /\ maxTokens > 0 =>
                  TokensFrom(admitLog, from, from + window) <= maxTokens
            /\ maxRequests > 0 =>
                  RequestsFrom(admitLog, from, from + window) <= maxRequests

(***************************************************************************)
(* Claims about a provider's calls, checked under SpecProvider.            *)
(***************************************************************************)

\* The UpdateLimits argument each header value stands for: the integer it
\* spells, with white space around it and a fraction dropped; 0 when the
\* header is absent or spells no number.
QuotaArgument(value) ==
    CASE value = <<"1">> -> 1
      [] value = <<" ", "3", " ">> -> 3
      [] value = <<"1", ".", "9">> -> 1
      [] value = <<"-", "1">> -> -1
      [] OTHER -> 0

\* Header values that are absent, malformed or not positive.
IgnoredValues == { << >>, <<"x">>, <<"0">>, <<"-", "1">> }

\* A response has been received in this step and its quota headers fed to
\* the limiter.
HeadersFed == httpRequests' = httpRequests + 1 /\ headers' # << >>

\* C18: when a response's quota headers are fed to the limiter, each limit is
\* replaced exactly when its header's value is > 0 and is left alone for a
\* zero or negative one; window-start, used-tokens and used-requests do not
\* change; an absent, malformed or non-positive header changes nothing and
\* is no error: the call goes on to the response's status.
C18_UpdateLimits ==
    [][ HeadersFed =>
          /\ maxTokens' = IF QuotaArgument(headers'[1]) > 0
                          THEN QuotaArgument(headers'[1]) ELSE maxTokens
          /\ maxRequests' = IF QuotaArgument(headers'[2]) > 0
                            THEN QuotaArgument(headers'[2]) ELSE maxRequests
          /\ headers'[1] \in IgnoredValues => maxTokens' = maxTokens
          /\ headers'[2] \in IgnoredValues => maxRequests' = maxRequests
          /\ UNCHANGED <<windowStart, usedTokens, usedRequests>>
          /\ \/ ppc' = "stream" /\ pret' = "none"
             \/ ppc' = "returned" /\ pret' = "err_status" ]_vars

\* A response has raised max-tokens and carried a malformed requests header,
\* while a reservation stands in the window.
C18_Witness ==
    /\ headers = << <<" ", "3", " ">>, <<"x">> >>
    /\ maxTokens = 3
    /\ maxRequests = 2
    /\ usedTokens > 0
    /\ windowStart > 0
    /\ ppc = "stream"

\* C19: a provider without a credential issues no HTTP request, invokes no
\* callback and never enters the limiter; each of its calls returns the
\* missing-credential error.
C19_NoCredential ==
    (pvendor \in Vendors /\ ~apiKeySet) =>
        /\ httpRequests = 0
        /\ ~callbacks
        /\ ppc \in {"idle", "returned"}
        /\ ppc = "returned" => pret = "err_key"
        /\ nWaitCalls = 0
        /\ callers[TheCaller] = IdleCaller
        /\ usedTokens = 0 /\ usedRequests = 0 /\ windowStart = 0

\* A provider without a credential has returned from its second call.
C19_Witness ==
    /\ pvendor \in Vendors
    /\ ~apiKeySet
    /\ ppc = "returned"
    /\ pret = "err_key"
    /\ nProviderCalls = MaxProviderCalls

\* C20 (as claimed): whatever the provider, an HTTP request is issued only by
\* a call whose Wait has returned with a committed reservation, and a call
\* whose Wait was cancelled returns the error without a request or callback.
C20_WaitBeforeRequest ==
    [][ /\ httpRequests' # httpRequests => granted
        /\ (pret' = "err_wait" /\ pret # "err_wait") =>
              /\ httpRequests' = httpRequests
              /\ ~callbacks' ]_vars

(***************************************************************************)
(* Claims about the streaming decoders, checked under SpecDecoder.         *)
(***************************************************************************)

RECURSIVE TextDeltas(_)
\* The non-empty text deltas the records of a stream carry, in stream order.
TextDeltas(lines) ==
    IF lines = << >> THEN << >>
    ELSE (IF Head(lines).kind \in {"text_delta", "chunk"} /\ Head(lines).text # ""
          THEN <<Head(lines).text>> ELSE << >>) \o TextDeltas(Tail(lines))

\* The record belongs to the assembly of a tool call.
IsToolRecord(r) ==
    \/ r.kind \in {"content_block_start", "input_json_delta", "tool_use_delta",
                   "content_block_stop"}
    \/ r.kind = "chunk" /\ r.toolCalls # << >>

\* The ids and the names the records of a stream carry.
IdsIn(lines) ==
    UNION { {lines[i].id, lines[i].toolUseID}
              \cup { lines[i].toolCalls[j].id : j \in 1..Len(lines[i].toolCalls) } :
            i \in 1..Len(lines) }

NamesIn(lines) ==
    UNION { {lines[i].name}
              \cup { lines[i].toolCalls[j].name : j \in 1..Len(lines[i].toolCalls) } :
            i \in 1..Len(lines) }

LastLine == stream[Len(stream)]

\* C3: in both decoders the onChunk invocations of a streaming call are the
\* non-empty text deltas of the records read, up to the end of the stream,
\* in stream order, whatever tool-call records lie between them.
C3_TextOrder ==
    scenario.vendor # "none" => chunks = TextDeltas(stream)

\* A call has returned after two text deltas with a tool-call record
\* between them.
C3_Witness ==
    /\ status = "ok"
    /\ \E i, j, k \in 1..Len(stream) :
         /\ i < j /\ j < k
         /\ stream[i].kind \in {"text_delta", "chunk"} /\ stream[i].text # ""
         /\ IsToolRecord(stream[j])
         /\ stream[k].kind \in {"text_delta", "chunk"} /\ stream[k].text # ""

\* C4 (as claimed): a tool call whose argument text arrived in several
\* fragments is delivered with the object parsed from the fragments
\* concatenated in arrival order, and nothing else, in both decoders.
C4_FragmentAssembly ==
    \A i \in 1..Len(emitted) :
        (Len(emitted[i].frags) >= 2 /\ ValidObject(Flatten(emitted[i].frags))) =>
            emitted[i].input = InputMap(ParseObject(Flatten(emitted[i].frags)), << >>)

\* C5: every ToolCall handed to onToolCall has a non-empty id and a
\* non-empty name, both carried by records of the stream; so a buffer that
\* never received both is not delivered, and it is no error: a call returns
\* an error only for an error event or an oversized line.
C5_IdAndName ==
    /\ \A i \in 1..Len(emitted) :
          /\ emitted[i].id # "" /\ emitted[i].id \in IdsIn(stream)
          /\ emitted[i].name # "" /\ emitted[i].name \in NamesIn(stream)
    /\ status = "error" => LastLine.kind \in {"error", "toolong"}

\* A declaration without id or without name was finalized by the end of the
\* stream, nothing was delivered and the call returned nil.
C5_Witness ==
    /\ status = "ok"
    /\ scenario.onToolCall
    /\ emitted = << >>
    /\ LastLine.kind \in {"message_stop", "done"}
    /\ \E i \in 1..Len(stream) :
         \/ /\ stream[i].kind = "content_block_start"
            /\ (stream[i].id = "" /\ stream[i].toolUseID = "") \/ stream[i].name = ""
            /\ LastLine.kind = "message_stop"
         \/ /\ stream[i].kind = "chunk"
            /\ \E j \in 1..Len(stream[i].toolCalls) :
                  stream[i].toolCalls[j].id = "" \/ stream[i].toolCalls[j].name = ""
            /\ \E j \in Indices : currentToolCalls[j].active

\* The buffers pending with a non-empty id and a non-empty name.
PendingComplete ==
    (IF currentTool.active /\ Complete(currentTool.id, currentTool.name)
     THEN {<<currentTool.id, currentTool.name>>} ELSE {})
    \cup { <<currentToolCalls[i].id, currentToolCalls[i].name>> :
             i \in { j \in Indices : /\ currentToolCalls[j].active
                                     /\ Complete(currentToolCalls[j].id,
                                                 currentToolCalls[j].name) } }

\* C6 (as claimed): when the stream ends by [DONE], by message_stop or by the
\* end of the input, every pending buffer with non-empty id and name is
\* handed to onToolCall exactly once before the call returns, in both
\* decoders.
C6_FinalizeAtEnd ==
    [][ (status = "scanning" /\ status' = "ok" /\ scenario.onToolCall) =>
          /\ Len(emitted') = Len(emitted) + Cardinality(PendingComplete)
          /\ \A p \in PendingComplete :
                \E i \in (Len(emitted) + 1)..Len(emitted') :
                    <<emitted'[i].id, emitted'[i].name>> = p ]_vars

\* The stream holds a top-level error event.
HasErrorEvent(lines) == \E i \in 1..Len(lines) : lines[i].kind = "error"

\* C7 (as claimed): in both decoders a top-level error event stops the
\* decoder at once with a stream error; neither the event nor anything after
\* it invokes onChunk or onToolCall, not even for a pending tool call.
C7_ErrorAborts ==
    [][ /\ HasErrorEvent(stream') => status' = "error"
        /\ (HasErrorEvent(stream') /\ ~HasErrorEvent(stream)) =>
              (chunks' = chunks /\ emitted' = emitted)
        /\ HasErrorEvent(stream) => (chunks' = chunks /\ emitted' = emitted) ]_vars

(***************************************************************************)
(* Claims about Provider.Chat, checked under SpecDecoder.                  *)
(***************************************************************************)
\* The chunks StreamChat delivered, concatenated in delivery order.
Delivered == Flatten([i \in 1..Len(chunks) |-> <<chunks[i]>>])

\* C23 (as stated): whatever the stream does, Chat returns exactly the
\* concatenation, in delivery order, of all text chunks that the underlying
\* StreamChat delivered.
C23_ChatConcatenates == chatRet.done => chatRet.text = Delivered

\* C23 (amended): when StreamChat returns no error, Chat returns no error and
\* exactly the concatenation, in delivery order, of the chunks delivered;
\* when StreamChat fails, Chat returns the error and the empty text.
C23_ChatOnSuccess ==
    chatRet.done =>
        IF status = "ok"
        THEN ~chatRet.err /\ chatRet.text = Delivered
        ELSE chatRet.err /\ chatRet.text = << >>

\* Chat has returned the text of two different chunks.
C23_Witness ==
    /\ chatRet.done
    /\ ~chatRet.err
    /\ chunks = <<"x", "y">>
    /\ chatRet.text = <<"x", "y">>

\* C29 (as claimed): when a record exceeds the scanner's 1 MiB cap, the
\* streaming call returns an error, and reading that record invokes no
\* callback, neither onChunk nor onToolCall, not even for tool calls still
\* pending; nothing is read and no callback is invoked afterwards - in both
\* decoders.
C29_OversizedRecord ==
    [][ /\ (status = "scanning" /\ stream' # stream
            /\ stream'[Len(stream')] = LineTooLong) =>
              /\ status' = "error"
              /\ chunks' = chunks
              /\ emitted' = emitted
        /\ (stream # << >> /\ LastLine = LineTooLong) =>
              /\ stream' = stream
              /\ chunks' = chunks
              /\ emitted' = emitted
              /\ status' = status ]_vars

(***************************************************************************)
(* Claims about the request and the response, checked under SpecRequest.   *)
(***************************************************************************)
\* The content of one message of a request body, as text.
SentContent(m) ==
    IF pvendor = "anthropic" THEN Flatten([i \in 1..Len(m.content) |-> m.content[i].text])
    ELSE m.content

\* Every message of the call has empty content.
AllEmpty(ms) == ms # << >> /\ \A i \in 1..Len(ms) : ms[i].content = << >>

\* C21 (as claimed): for each provider, no message of a request handed to the
\* HTTP client has empty content, and a call all of whose messages have
\* empty content returns the validation error without any HTTP request.
C21_EmptyDropped ==
    /\ requestBody.sent =>
          \A i \in 1..Len(requestBody.messages) :
              SentContent(requestBody.messages[i]) # << >>
    /\ (AllEmpty(pmessages) /\ ppc \in {"stream", "returned"}
        /\ pret \notin {"err_key", "err_wait"}) =>
          /\ pret = "err_nomsg"
          /\ ~requestBody.sent

\* The text ends with the body.
EndsWith(text, body) ==
    /\ Len(text) >= Len(body)
    /\ SubSeq(text, Len(text) - Len(body) + 1, Len(text)) = body

\* C22 (as claimed): for each provider, a response whose status is outside
\* 200..299 makes the call return an error that holds the status code and
\* ends with the response body as received, with no callback invoked; a
\* response whose status is within 200..299 has its body decoded as the
\* response stream.
C22_StatusCheck ==
    [][ (httpRequests' = httpRequests + 1 /\ presponse' # NoResponse) =>
          IF presponse'.code \in 200..299
          THEN ppc' = "stream" /\ perror' = << >>
          ELSE /\ ppc' = "returned"
               /\ pret' = "err_status"
               /\ \E i \in 1..Len(perror') : perror'[i] = ToString(presponse'.code)
               /\ EndsWith(perror', presponse'.body)
               /\ ~callbacks' ]_vars

(***************************************************************************)
(* Claims about chat.Manager, checked under SpecManager.                   *)
(***************************************************************************)
NonSystem(ms) == SelectSeq(ms, LAMBDA m : m.role # "system")

SystemCount(ms) == Len(SelectSeq(ms, LAMBDA m : m.role = "system"))

\* C24: after SetSystemPrompt(text), whatever the messages were before, there
\* is exactly one system message, it is the first message and its content is
\* text, and the messages after it are the earlier non-system messages,
\* unchanged and in their earlier order; so a second call leaves only the
\* second call's text.
C24_SetSystemPrompt ==
    lastOp.op = "prompt" =>
        /\ SystemCount(messages) = 1
        /\ messages[1] = Msg("system", lastOp.arg)
        /\ Tail(messages) = NonSystem(lastOp.before)

\* A second SetSystemPrompt, made on a conversation that held the first
\* call's prompt, a later system message and other turns.
C24_Witness ==
    /\ lastOp.op = "prompt"
    /\ lastOp.arg = <<"prompt two">>
    /\ lastOp.before # << >>
    /\ lastOp.before[1] = Msg("system", <<"prompt one">>)
    /\ SystemCount(lastOp.before) = 2
    /\ Len(NonSystem(lastOp.before)) >= 3

\* C25: when summarizeContext succeeds on n messages, the messages become
\* exactly 6: a system message with the content "Previous conversation
\* summary: " followed by the summary, then the last 5 of the n messages,
\* unchanged and in order.
C25_SummaryShape ==
    (lastOp.op = "stream" /\ lastOp.sum = "ok") =>
        LET n == Len(lastOp.afterUser)
            after == lastOp.streamed
        IN  /\ Len(after) = 6
            /\ after[1].role = "system"
            /\ after[1].content =
                   <<"Previous conversation summary: ">> \o lastOp.summary
            /\ \A i \in 1..5 : after[i + 1] = lastOp.afterUser[n - 5 + i]

\* A summarization of 32 messages has succeeded with a non-empty summary.
C25_Witness ==
    /\ lastOp.op = "stream"
    /\ lastOp.sum = "ok"
    /\ lastOp.summary = <<"summary">>
    /\ Len(lastOp.afterUser) = summarizeThreshold + 2
    /\ Len(lastOp.streamed) = 6

\* C26: when the summarization fails, StreamChatWithTools goes on: the
\* messages are those with the user turn appended, the provider is streamed
\* with exactly them, and the call returns what the stream returns, never
\* the summarization's error.
C26_SummaryFailure ==
    (lastOp.op = "stream" /\ lastOp.sum = "failed") =>
        /\ lastOp.afterUser = Append(lastOp.before, Msg("user", lastOp.arg))
        /\ lastOp.streamed = lastOp.afterUser
        /\ lastOp.reply \in ManagerReplies
        /\ lastOp.ret = IF lastOp.reply.err THEN "err_stream" ELSE "ok"
        /\ Len(messages) >= Len(lastOp.afterUser)
        /\ SubSeq(messages, 1, Len(lastOp.afterUser)) = lastOp.afterUser

\* The summarization failed and the call returned nil.
C26_Witness ==
    /\ lastOp.op = "stream"
    /\ lastOp.sum = "failed"
    /\ lastOp.ret = "ok"
    /\ Len(lastOp.streamed) = summarizeThreshold + 1
    /\ Len(messages) = summarizeThreshold + 2

\* The text begins with the prefix.
BeginsWith(text, prefix) ==
    Len(text) >= Len(prefix) /\ SubSeq(text, 1, Len(prefix)) = prefix

\* C27 (as claimed): once a summarization has succeeded, and until Clear, the
\* first message is a system message holding the summary, whatever
\* operations follow.
C27_SummaryStaysOldest ==
    summarized =>
        /\ messages # << >>
        /\ messages[1].role = "system"
        /\ BeginsWith(messages[1].content, <<"Previous conversation summary: ">>)

\* C28: a StreamChatWithTools call that returns nil without a summarization
\* appends exactly two messages to the earlier ones, which stay as they
\* were: the user turn, then one assistant turn made of the streamed chunks,
\* concatenated, and after them one marker per tool call received, in the
\* order received, with the call's name and input.
C28_TurnAppended ==
    (lastOp.op = "stream" /\ lastOp.sum # "ok" /\ lastOp.ret = "ok") =>
        LET calls == lastOp.reply.calls
        IN  messages =
              lastOp.before
              \o <<Msg("user", lastOp.arg),
                   Msg("assistant",
                       Flatten(lastOp.reply.chunks)
                       \o Flatten([i \in 1..Len(calls) |->
                              <<"\n<function_call>{\"name\":\"", calls[i].name,
                                "\",\"input\":">>
                              \o FormatToolInput(calls[i].input)
                              \o <<"}</function_call>">>]))>>

\* A call without summarization has returned nil after two tool calls were
\* received, on a conversation that held earlier turns.
C28_Witness ==
    /\ lastOp.op = "stream"
    /\ lastOp.sum = "none"
    /\ lastOp.ret = "ok"
    /\ Len(lastOp.reply.calls) = 2
    /\ Len(lastOp.before) >= 3
    /\ Len(messages) = Len(lastOp.before) + 2
    /\ messages[Len(messages)].role = "assistant"

(***************************************************************************)
(* Claims about EstimateTokens, checked under SpecEstimator.               *)
(***************************************************************************)
\* The total content length of a message list, in bytes.
ContentLength(ms) == Sum([i \in 1..Len(ms) |-> ByteLen(ms[i].content)])

\* C30 (as stated): every estimate is at least 1, and of any two message
\* lists the one with the larger total content length never gets the
\* smaller estimate.
C30_Monotonic ==
    /\ \A c \in estDone : estValues[c] >= 1
    /\ estDone = EstCalls =>
          \A c, d \in EstCalls :
              ContentLength(estArgs[c]) > ContentLength(estArgs[d]) =>
                  estValues[c] >= estValues[d]

\* List `more` has every message of list `less`, each with the same or a
\* longer content that begins with the old one, and maybe further messages.
Extends(more, less) ==
    /\ Len(more) >= Len(less)
    /\ \A i \in 1..Len(less) : BeginsWith(more[i].content, less[i].content)

\* C30 (amended): every estimate is at least 1, and the estimate never gets
\* smaller when content is appended to messages of the list or messages are
\* added to it.
C30_MonotonicExtension ==
    /\ \A c \in estDone : estValues[c] >= 1
    /\ estDone = EstCalls =>
          \A c, d \in EstCalls :
              Extends(estArgs[c], estArgs[d]) => estValues[c] >= estValues[d]

\* Both calls have returned; one list extends the other, non-empty one in
\* content and in messages, and its estimate is larger.
C30_Witness ==
    /\ estDone = EstCalls
    /\ Extends(estArgs["b"], estArgs["a"])
    /\ Len(estArgs["a"]) = 1
    /\ Len(estArgs["b"]) = 2
    /\ ContentLength(estArgs["b"]) > ContentLength(estArgs["a"])
    /\ estArgs["a"][1].content # estArgs["b"][1].content
    /\ estValues["b"] > estValues["a"]
(***************************************************************************)
(* Claims about the TUI's approval protocol, checked under SpecTUI.        *)
(***************************************************************************)
\* Request n has got its one decision and the goroutine has gone on past it.
Answered(n) ==
    /\ n <= Len(requestLog)
    /\ Len(requestLog[n].sent) = 1
    /\ requestLog[n].received

\* No request ever gets a second decision, and the goroutine goes on only
\* with a decision sent.
OneDecision ==
    \A n \in 1..Len(requestLog) :
        /\ Len(requestLog[n].sent) <= 1
        /\ requestLog[n].received => Len(requestLog[n].sent) = 1

\* A tool call that needs approval has been run only on an approve decision
\* for that very call.
RunOnlyApproved ==
    \A i \in 1..Len(executedLog) :
        needsApproval(executedLog[i].toolCall, manualApproval) =>
            /\ executedLog[i].request \in 1..Len(requestLog)
            /\ requestLog[executedLog[i].request].toolCall = executedLog[i].toolCall
            /\ requestLog[executedLog[i].request].sent = <<TRUE>>

\* A cancelled tool call is never run, and once the goroutine has the
\* decision its callback has returned the error.
CancelledNotRun ==
    \A n \in 1..Len(requestLog) :
        requestLog[n].sent = <<FALSE>> =>
            /\ \A i \in 1..Len(executedLog) : executedLog[i].request # n
            /\ requestLog[n].received =>
                 \E j \in 1..Len(returnLog) :
                     /\ returnLog[j].request = n
                     /\ returnLog[j].err = "cancelled"

RECURSIVE LastParse(_)
\* The object of the last successful parse when the full accumulated text
\* is parsed anew after every fragment ({}: no parse has succeeded yet).
LastParse(frags) ==
    IF frags = << >> THEN {}
    ELSE IF ValidObject(Flatten(frags)) THEN ParseObject(Flatten(frags))
    ELSE LastParse(SubSeq(frags, 1, Len(frags) - 1))

\* C32 (as claimed): after each argument-fragment record the in-progress
\* input of the record's index is the parse of the full argument text
\* accumulated for the index since its declaration whenever that text
\* parses, and it is never the parse of only the fragments received since
\* the last successful parse: it is what parsing the full text after every
\* fragment leaves.  (For the Anthropic buffer, which is parsed when it is
\* finalized, the input is the one a finalization would deliver.)
C32_FullReparse ==
    /\ \A i \in Indices :
          (currentToolCalls[i].active /\ currentToolCalls[i].frags # << >>) =>
              /\ ValidObject(Flatten(currentToolCalls[i].frags)) =>
                    currentToolCalls[i].input.obj =
                        ParseObject(Flatten(currentToolCalls[i].frags))
              /\ currentToolCalls[i].input.obj =
                    LastParse(currentToolCalls[i].frags)
    /\ (currentTool.active /\ currentTool.frags # << >>
          /\ ValidObject(Flatten(currentTool.frags))) =>
              FinalInput(currentTool).obj =
                  currentTool.input \cup ParseObject(Flatten(currentTool.frags))
\* C33 (as claimed): a tool call with non-empty id and name that is
\* finalized while its accumulated argument text is not a parseable JSON
\* object is handed to onToolCall with an empty input mapping, which carries
\* no raw argument text and no bookkeeping key, and the parse failure is no
\* stream error: a call returns an error only for an error event or an
\* oversized line - in both decoders.
C33_UnparsedEmpty ==
    /\ \A i \in 1..Len(emitted) :
          (emitted[i].frags # << >> /\ ~ValidObject(Flatten(emitted[i].frags))) =>
              emitted[i].input = InputMap({}, << >>)
    /\ status = "error" => LastLine.kind \in {"error", "toolong"}
\* The record read by the step (the step appends it to the stream).
ReadsRecord == stream' # stream

NewLine == stream'[Len(stream')]

\* The elements of a chunk's tool_calls that are for index i.
DeltasFor(r, i) == SelectSeq(r.toolCalls, LAMBDA d : d.index = i)

\* A declaration of the OpenAI decoder for index i without id (without name).
NoIdFor(r, i) ==
    /\ r.kind = "chunk"
    /\ DeltasFor(r, i) # << >>
    /\ \A j \in 1..Len(DeltasFor(r, i)) : DeltasFor(r, i)[j].id = ""

NoNameFor(r, i) ==
    /\ r.kind = "chunk"
    /\ DeltasFor(r, i) # << >>
    /\ \A j \in 1..Len(DeltasFor(r, i)) : DeltasFor(r, i)[j].name = ""

\* The OpenAI decoder and the Anthropic decoder's legacy tool_use delta keep
\* a known id (name) when the record read carries none.
StickyOpenAI ==
    \A i \in Indices :
        /\ (currentToolCalls[i].active /\ currentToolCalls[i].id # ""
              /\ NoIdFor(NewLine, i)) =>
                 currentToolCalls'[i].id = currentToolCalls[i].id
        /\ (currentToolCalls[i].active /\ currentToolCalls[i].name # ""
              /\ NoNameFor(NewLine, i)) =>
                 currentToolCalls'[i].name = currentToolCalls[i].name

StickyAnthropic(kinds) ==
    /\ (currentTool.active /\ currentTool.id # "" /\ NewLine.kind \in kinds
          /\ NewLine.id = "" /\ NewLine.toolUseID = "") =>
             currentTool'.id = currentTool.id
    /\ (currentTool.active /\ currentTool.name # "" /\ NewLine.kind \in kinds
          /\ NewLine.name = "") =>
             currentTool'.name = currentTool.name

C35_SkippedLine ==
    [][ (ReadsRecord /\ NewLine = SkipLine) =>
          /\ chunks' = chunks
          /\ emitted' = emitted
          /\ currentTool' = currentTool
          /\ currentToolCalls' = currentToolCalls
          /\ status' = "scanning" ]_vars

\* A call has returned after a skipped line between the declaration of a
\* tool call and its argument text, and has delivered the tool call with the
\* arguments parsed.
C35_Witness ==
    /\ status = "ok"
    /\ Len(emitted) = 1
    /\ emitted[1].input = InputMap({"a"}, << >>)
    /\ \E i, j, k \in 1..Len(stream) :
         /\ i < j /\ j < k
         /\ IsToolRecord(stream[i])
         /\ stream[j] = SkipLine
         /\ IsToolRecord(stream[k])
(***************************************************************************)
(* Claims about the limiter's reporter, checked under SpecLimiterObserved. *)
(***************************************************************************)
\* Every wait-begin notification but a last one is followed by a wait-end.
Paired(log) ==
    \A i \in 1..(Len(log) - 1) : log[i].waiting => ~log[i + 1].waiting

\* The limiter's counters admit a reservation of the given tokens now.
Admissible(tokens) ==
    LET reset == WindowExpired(windowStart, now, window)
    IN  /\ TokensOK(IF reset THEN 0 ELSE usedTokens, tokens, maxTokens)
        /\ RequestsOK(IF reset THEN 0 ELSE usedRequests, maxRequests)

\* C36: during a Wait whose context carries a reporter, every waiting = true
\* notification is followed by a waiting = false notification before Wait
\* returns, and the last notification before any return, nil or the
\* context's error, is waiting = false; a wait-begin without its wait-end is
\* outstanding only while Wait sleeps.  The admission decisions are those
\* taken without a reporter: a reserve call commits exactly when the
\* limiter's counters admit its tokens, whether the caller has a reporter or
\* not, and no other step of Wait touches the counters.
C36_Reporter ==
    /\ [](\A c \in Callers :
            /\ Paired(reports[c])
            /\ (reports[c] # << >> /\ reports[c][Len(reports[c])].waiting) =>
                   callers[c].pc = "sleep"
            /\ (observer[c] /\ callers[c].pc = "done") =>
                   /\ reports[c] # << >>
                   /\ ~reports[c][Len(reports[c])].waiting
            /\ ~observer[c] => reports[c] = << >>)
    /\ [][\A c \in Callers :
            /\ (callers[c].pc = "reserve" /\ callers'[c].pc # "reserve") =>
                  ((callers'[c].reserved # callers[c].reserved)
                      <=> Admissible(callers[c].tokens))
            /\ (callers[c].pc # "reserve" /\ callers'[c] # callers[c]) =>
                  /\ usedTokens' = usedTokens
                  /\ usedRequests' = usedRequests
                  /\ windowStart' = windowStart]_vars

\* A Wait with a reporter has returned nil after one sleep: the reporter was
\* told of the wait's begin, of its end and of the admission; and a Wait
\* without a reporter has been admitted too.
C36_Witness ==
    \E c, d \in Callers :
        /\ observer[c]
        /\ callers[c].pc = "done" /\ callers[c].ret = "ok"
        /\ Len(reports[c]) = 3
        /\ reports[c][1].waiting /\ reports[c][1].wait > 0
        /\ ~reports[c][2].waiting /\ ~reports[c][3].waiting
        /\ ~observer[d]
        /\ callers[d].pc = "done" /\ callers[d].ret = "ok"
(***************************************************************************)
(* Claims about what a round with tool calls records, checked under Spec.  *)
(***************************************************************************)
\* C37: a round of StreamTask or ExecuteTask whose reply holds at least one
\* tool call appends exactly one message to the manager, the user-role
\* message of the joined tool results, and appends it after the last tool
\* call has run: while the calls are dispatched the history is the one the
\* provider was called with, and when the round ends it is that history plus
\* the one message.  Neither the streamed assistant text nor the tool calls
\* are recorded, so the next provider call gets a history that ends in the
\* tool results with no assistant message before them.
C37_OneToolResultMessage ==
    /\ [](pc = "dispatch" => /\ messages = roundStart
                             /\ roundReply.calls # << >>)
    /\ [][(pc = "dispatch" /\ pc' = "loop") =>
             /\ messages' = Append(roundStart,
                                   Msg("user", ToolResultsText(toolResults')))
             /\ Len(toolResults') = Len(roundReply.calls)]_vars
    /\ [][(providerCalls' # providerCalls /\ iterations > 0
             /\ roundReply.calls # << >>) =>
                /\ roundStart' = messages
                /\ messages[Len(messages)] =
                       Msg("user", ToolResultsText(toolResults))]_vars

\* A round that streamed text and one tool call has ended: the history grew
\* by the tool results only and holds the streamed text nowhere.
C37_Witness ==
    /\ pc = "loop"
    /\ roundReply.calls # << >>
    /\ Flatten(roundReply.chunks) # << >>
    /\ Len(messages) = Len(roundStart) + 1
    /\ messages[Len(messages)].role = "user"
    /\ \A i \in 1..Len(messages) :
           messages[i].content # Flatten(roundReply.chunks)
OversizedSleepsPositiveWindow ==
    /\ [][\A c \in Callers :
            (ReserveReturns(c) /\ maxTokens > 0 /\ window > 0
               /\ callers[c].tokens > maxTokens) =>
                 /\ ~Committed(c)
                 /\ callers'[c].pc = "sleep"]_vars
    /\ [](\A c \in Callers :
            (callers[c].pc = "done" /\ maxTokens > 0 /\ window > 0
               /\ callers[c].tokens > maxTokens) =>
                 callers[c].ret = "cancelled")
(***************************************************************************)
(* Claims about the decoders' determinism, checked under SpecDecoder.      *)
(***************************************************************************)
\* The onToolCall invocations of the step that ends the scan.
FlushedAtEnd == SubSeq(emitted', Len(emitted) + 1, Len(emitted'))

\* The entries of currentToolCalls that have an id and a name.
Due == { i \in Indices : /\ currentToolCalls[i].active
                         /\ currentToolCalls[i].id # ""
                         /\ currentToolCalls[i].name # "" }

\* The end of an OpenAI scan with an onToolCall callback.
OpenAIScanEnds ==
    /\ scenario.vendor = "openai" /\ scenario.onToolCall
    /\ status = "scanning" /\ status' # "scanning"

C40_AtMostMaxMessages == Len(messages) <= maxMessages

====
